---- MODULE Spec2Model ----
(***************************************************************************)
(* Model of the paper collectors of rdr-scripts (src/venue/*.py): the      *)
(* JSON-backed PaperDatabase of every venue, the retrying HTTP session,    *)
(* and the per-candidate loops of the collectors.                          *)
(***************************************************************************)
EXTENDS Integers, Sequences, FiniteSets, TLC

VARIABLES
    venue,      \* which venue script is running (one PaperDatabase class each)
    proc,       \* "off" | "ready" | "raised" | "dead": the process and its PaperDatabase
    papers,     \* PaperDatabase.papers: the dict, as the sequence of its values in insertion order
    file,       \* content of PaperDatabase.filename on disk, or NoFile
    backups,    \* contents of the <filename>.bak.<timestamp> files, in creation order
    last,       \* the last store call or loop iteration: [op, arg, res, repeat]
    done,       \* identity -> record of the last save_paper call that returned, over all runs
    lives,      \* number of PaperDatabase constructions so far
    loaded,     \* the dict as the last construction left it
    rt,         \* state of one fetch through a retrying session
    col,        \* state of one collector run
    sr,         \* state of one search_arxiv_for_paper call (iros24)
    ex,         \* state of one abstract extraction from a fetched page
    pace,       \* the courtesy delay owed to the arXiv API
    fn          \* state of one call of a helper function

vars == <<venue, proc, papers, file, backups, last, done, lives, loaded, rt, col, sr, ex, pace, fn>>

storeVars == <<venue, proc, papers, file, backups, last, done, lives, loaded>>

-----------------------------------------------------------------------------
(* Bounds of the model *)

NumIds == 2             \* distinct identity keys a run may see
MaxFileLen == 2         \* entries of a persisted file found at first start
MaxLives == 2           \* PaperDatabase constructions (process starts)

-----------------------------------------------------------------------------
(* Values *)

NONE == "None"          \* Python's None
NoFile == [exists |-> FALSE, valid |-> FALSE, entries |-> <<>>]

Truthy(x) == x \notin {NONE, ""}

IdNames == <<"k1", "k2", "k3", "k4">>
Ids == {IdNames[i] : i \in 1..NumIds}

Venues == {"acl", "cvpr", "dex", "rss24", "neurips24", "eccv24", "iclr23",
           "iclr25", "iros24", "siggraph23", "nature", "pharm", "science", "quantum"}

TitleVenues == {"acl", "cvpr", "dex"}
JournalVenues == {"nature", "pharm", "science", "quantum"}

-----------------------------------------------------------------------------
(* The Paper classes *)

\* attributes set by Paper.__init__
PaperAttrs(v) ==
    IF v \in TitleVenues
    THEN {"title", "authors", "paper_id", "pdf_url", "arxiv_url", "abstract", "supplemental_url"}
    ELSE IF v \in JournalVenues
    THEN {"journal", "paper_id", "title", "authors", "publication_date",
          "paper_link", "doi", "abstract", "keywords"}
    ELSE IF v = "iros24"
    THEN {"paper_no", "authors", "title", "arxiv_pdf", "arxiv_abstract"}
    ELSE {"paper_id", "authors", "title", "paper_url", "pdf_link", "abstract"}
         \cup (IF v = "eccv24" THEN {"doi_url"} ELSE {})
         \cup (IF v = "siggraph23" THEN {"scholar_publication"} ELSE {})

\* positional arguments of Paper.__init__, read by from_dict as data[...]
RequiredKeys(v) ==
    IF v \in TitleVenues THEN {"title", "authors"}
    ELSE IF v \in JournalVenues THEN {"paper_id", "title", "journal"}
    ELSE IF v = "iros24" THEN {"paper_no", "authors", "title"}
    ELSE {"paper_id", "authors", "title"}

\* the attribute PaperDatabase uses as dict key
IdAttr(v) ==
    IF v \in TitleVenues THEN "title"
    ELSE IF v = "iros24" THEN "paper_no"
    ELSE "paper_id"

\* the key under which to_dict writes attribute a
WriteKey(v, a) == IF a = "paper_link" THEN "paper_url" ELSE a

\* the key from which from_dict reads attribute a
ReadKey(v, a) ==
    IF a = "paper_link" /\ v \in {"science", "quantum"} THEN "paper_url" ELSE a

to_dict(v, p) ==
    [k \in {WriteKey(v, a) : a \in PaperAttrs(v)} |->
        p[CHOOSE a \in PaperAttrs(v) : WriteKey(v, a) = k]]

\* from_dict raises KeyError when a positional argument's key is missing
CanFromDict(v, d) == RequiredKeys(v) \subseteq DOMAIN d

from_dict(v, d) ==
    [a \in PaperAttrs(v) |->
        IF ReadKey(v, a) \in DOMAIN d THEN d[ReadKey(v, a)] ELSE NONE]

\* a store that keys every venue by paper_id
PaperKey_ByPaperId(v, p) == IF "paper_id" \in DOMAIN p THEN p["paper_id"] ELSE p[IdAttr(v)]

PaperKey(v, p) == p[IdAttr(v)]

-----------------------------------------------------------------------------
(* Python dict with insertion order: self.papers *)

Keys(v, m) == {PaperKey(v, m[i]) : i \in 1..Len(m)}

IndexOf(v, m, k) == CHOOSE i \in 1..Len(m) : PaperKey(v, m[i]) = k

\* a store that appends on every save
DictSet_AlwaysAppend(v, m, p) == Append(m, p)

\* a store that keeps only the record just saved
DictSet_OnlySaved(v, m, p) == <<p>>

\* self.papers[key] = paper : an existing key keeps its position
DictSet(v, m, p) ==
    IF PaperKey(v, p) \in Keys(v, m)
    THEN [m EXCEPT ![IndexOf(v, m, PaperKey(v, p))] = p]
    ELSE Append(m, p)

DictGet(v, m, k) == m[IndexOf(v, m, k)]

\* [paper.to_dict() for paper in self.papers.values()]
Serialize(v, m) == [i \in 1..Len(m) |-> to_dict(v, m[i])]

Prefix(s, n) == SubSeq(s, 1, n)

-----------------------------------------------------------------------------
(* Inputs: the Paper objects a collector may hand to save_paper, and the   *)
(* files a first start may find                                            *)

AbstractAttr(v) == IF v = "iros24" THEN "arxiv_abstract" ELSE "abstract"

PdfAttr(v) ==
    IF v \in TitleVenues THEN "pdf_url"
    ELSE IF v \in JournalVenues THEN "paper_link"
    ELSE IF v = "iros24" THEN "arxiv_pdf"
    ELSE "pdf_link"

LinkValues == {NONE, "url"}
\* the empty string counts as missing like None
AbstractValues == {NONE, "", "abs"}
\* only the title-keyed Paper has a second link field, arxiv_url
ArxivValues(v) == IF v \in TitleVenues THEN LinkValues ELSE {NONE}

MkPaper(v, id, abs, pdf, arx) ==
    [a \in PaperAttrs(v) |->
        IF a = IdAttr(v) THEN id
        ELSE IF a = AbstractAttr(v) THEN abs
        ELSE IF a = PdfAttr(v) THEN pdf
        ELSE IF a = "arxiv_url" THEN arx
        ELSE IF a \in RequiredKeys(v) \cup {"authors"} THEN a
        ELSE NONE]

\* a record with every field found, and one with the listing fields only
FullPaper(v, id) == MkPaper(v, id, "abs", "url", NONE)
BarePaper(v, id) == MkPaper(v, id, NONE, NONE, NONE)

SaveInputs(v) == {FullPaper(v, id) : id \in Ids} \cup {BarePaper(v, id) : id \in Ids}

\* every combination of missing and present fields, for the completeness check
GateInputs(v) ==
    {MkPaper(v, id, abs, pdf, arx) :
        id \in Ids, abs \in AbstractValues, pdf \in LinkValues, arx \in ArxivValues(v)}

\* a dict without one of the keys from_dict requires
BadDict(v) ==
    [k \in {"abstract"} \cup (RequiredKeys(v) \ {"title"}) |-> IF k = "abstract" THEN "abs" ELSE k]

\* entries of a file found at first start: one that loads and one that does not
InitDicts(v) == {to_dict(v, FullPaper(v, IdNames[1])), BadDict(v)}

RECURSIVE SeqsUpTo(_, _)
SeqsUpTo(S, n) ==
    IF n = 0 THEN {<<>>}
    ELSE LET shorter == SeqsUpTo(S, n - 1)
         IN shorter \cup {Append(s, x) : s \in {t \in shorter : Len(t) = n - 1}, x \in S}

Doc(entries) == [exists |-> TRUE, valid |-> TRUE, entries |-> entries]
\* text that json.load rejects; entries: the complete entries it starts with
Torn(entries) == [exists |-> TRUE, valid |-> FALSE, entries |-> entries]

\* every file a construction may find: none, text that is not JSON, and lists
\* with an entry lacking a required key at any position
InitFiles(v) ==
    {NoFile, Torn(<<>>)} \cup {Doc(es) : es \in SeqsUpTo(InitDicts(v), MaxFileLen)}

\* the files a script's first start finds: none, an unreadable one, or the
\* store of an earlier run
StartFiles(v) == {NoFile, Torn(<<>>), Doc(<<to_dict(v, FullPaper(v, IdNames[1]))>>)}

-----------------------------------------------------------------------------
(* PaperDatabase._load_existing_papers *)

RECURSIVE LoadFrom(_, _, _)
\* for paper_dict in data: paper = Paper.from_dict(paper_dict); self.papers[key] = paper
\* stops at the first entry from_dict raises on; what was stored before it stays
LoadFrom(v, entries, acc) ==
    IF entries = <<>> THEN [papers |-> acc, failed |-> FALSE]
    ELSE IF ~CanFromDict(v, Head(entries)) THEN [papers |-> acc, failed |-> TRUE]
    ELSE LoadFrom(v, Tail(entries), DictSet(v, acc, from_dict(v, Head(entries))))

\* the try block: json.load(f), then the loop
Load(v, f) ==
    IF ~f.valid THEN [papers |-> <<>>, failed |-> TRUE]
    ELSE LoadFrom(v, f.entries, <<>>)

\* what the except handler does with the file
BackupPolicy(v) ==
    IF v = "siggraph23" THEN "none"                  \* only prints
    ELSE IF v = "iclr23" THEN "rename_guarded"       \* catches OSError of os.rename
    ELSE "rename"

NoCall == [op |-> "none", arg |-> NONE, res |-> NONE, repeat |-> FALSE]

\* PaperDatabase.__init__: self.papers = {}; self._load_existing_papers()
\* renameOk: whether os.rename succeeds, should the handler call it
Construct(renameOk) ==
    /\ proc \in {"off", "dead", "raised"}
    /\ lives < MaxLives
    /\ lives' = lives + 1
    /\ LET ld == IF file.exists THEN Load(venue, file) ELSE [papers |-> <<>>, failed |-> FALSE]
           renamed == ld.failed /\ BackupPolicy(venue) # "none" /\ renameOk
           raises == ld.failed /\ BackupPolicy(venue) = "rename" /\ ~renameOk
       IN /\ papers' = ld.papers
          /\ loaded' = ld.papers
          /\ file' = IF renamed THEN NoFile ELSE file
          /\ backups' = IF renamed THEN Append(backups, file) ELSE backups
          /\ proc' = IF raises THEN "raised" ELSE "ready"
          /\ last' = [op |-> "construct",
                      arg |-> IF ~file.exists THEN "nofile"
                              ELSE IF ~ld.failed THEN "loaded"
                              ELSE IF BackupPolicy(venue) # "none" /\ ~renameOk
                              THEN "failed_rename" ELSE "failed",
                      res |-> IF raises THEN "raised" ELSE "returned",
                      repeat |-> FALSE]
    /\ UNCHANGED <<venue, done, rt, col, sr, ex, pace, fn>>

-----------------------------------------------------------------------------
(* PaperDatabase.save_paper / _save_to_file *)

DoneSet(d, k, p) == [x \in DOMAIN d \cup {k} |-> IF x = k THEN p ELSE d[x]]

\* the call before this one was save_paper with an equal record, and returned
SameAsLastSave(p) ==
    /\ last.op = "save" /\ last.res = "returned"
    /\ last.arg = PaperKey(venue, p)
    /\ DictGet(venue, papers, PaperKey(venue, p)) = p

\* save_paper returns: the dict is updated and the whole dict is written
SaveStore(p) ==
    /\ papers' = DictSet(venue, papers, p)
    /\ file' = Doc(Serialize(venue, papers'))
    /\ done' = DoneSet(done, p[IdAttr(venue)], p)
    /\ last' = [op |-> "save", arg |-> PaperKey(venue, p), res |-> "returned",
                repeat |-> SameAsLastSave(p)]
    /\ UNCHANGED <<venue, backups, lives, loaded>>

\* the write raises (OSError): open(filename, 'w') fails before it truncates
\* (opened = FALSE), or json.dump fails after n entries went out
SaveRaisesStore(p, opened, n) ==
    /\ papers' = DictSet(venue, papers, p)
    /\ n \in 0..(Len(papers') - 1)
    /\ opened \/ n = 0
    /\ file' = IF opened THEN Torn(Prefix(Serialize(venue, papers'), n)) ELSE file
    /\ last' = [op |-> "save", arg |-> PaperKey(venue, p), res |-> "raised", repeat |-> FALSE]
    /\ UNCHANGED <<venue, backups, done, lives, loaded>>

\* db.save_paper(p) called by any caller, returning
SavePaper(p) ==
    /\ proc = "ready"
    /\ SaveStore(p)
    /\ UNCHANGED <<proc, rt, col, sr, ex, pace, fn>>

\* db.save_paper(p) raising to a caller that does not catch it
SavePaperRaises(p, opened, n) ==
    /\ proc = "ready"
    /\ SaveRaisesStore(p, opened, n)
    /\ proc' = "raised"
    /\ UNCHANGED <<rt, col, sr, ex, pace, fn>>

\* the process ends inside the with block of _save_to_file: the file was
\* truncated by open(filename, 'w') and n entries went out
SavePaperKilled(p, n) ==
    /\ proc = "ready"
    /\ papers' = DictSet(venue, papers, p)
    /\ n \in 0..(Len(papers') - 1)
    /\ file' = Torn(Prefix(Serialize(venue, papers'), n))
    /\ proc' = "dead"
    /\ last' = [op |-> "save", arg |-> PaperKey(venue, p), res |-> "killed", repeat |-> FALSE]
    /\ UNCHANGED <<venue, backups, done, lives, loaded, rt, col, sr, ex, pace, fn>>

\* the process ends between two calls
Kill ==
    /\ proc = "ready"
    /\ proc' = "dead"
    /\ last' = [op |-> "kill", arg |-> NONE, res |-> NONE, repeat |-> FALSE]
    /\ UNCHANGED <<venue, papers, file, backups, done, lives, loaded, rt, col, sr, ex, pace, fn>>

-----------------------------------------------------------------------------
(* PaperDatabase.has_paper *)

\* a check that accepts either link field
IsFull_EitherLink(p) == Truthy(p["abstract"]) /\ (Truthy(p["pdf_url"]) \/ Truthy(p["arxiv_url"]))

\* acl.py, dex.py: bool(existing_paper.abstract and existing_paper.pdf_url)
IsFull(p) == Truthy(p["abstract"]) /\ Truthy(p["pdf_url"])

has_paper(v, m, k) ==
    IF k \notin Keys(v, m) THEN FALSE
    ELSE IF v \in {"acl", "dex"} THEN IsFull(DictGet(v, m, k))
    ELSE TRUE

BoolStr(b) == IF b THEN "True" ELSE "False"

HasPaper(k) ==
    /\ proc = "ready"
    /\ last' = [op |-> "has", arg |-> k, res |-> BoolStr(has_paper(venue, papers, k)),
                repeat |-> FALSE]
    /\ UNCHANGED <<venue, proc, papers, file, backups, done, lives, loaded, rt, col, sr, ex, pace, fn>>

-----------------------------------------------------------------------------
(* The store on its own: any caller, any interleaving of starts, saves,    *)
(* queries and process ends                                                *)

RtIdle == [pc |-> "idle"]
ColIdle == [pc |-> "idle"]
SrIdle == [pc |-> "idle", i |-> 1, entries |-> <<>>, verdicts |-> <<>>, hit |-> 0,
           ret |-> <<NONE, NONE>>, outcome |-> NONE, examined |-> 0]
ExIdle == [pc |-> "idle"]
NoDelayOwed == [owed |-> FALSE, rushed |-> FALSE]
FnIdle == [pc |-> "idle"]

Init ==
    /\ venue \in Venues
    /\ proc = "off"
    /\ papers = <<>>
    /\ file \in StartFiles(venue)
    /\ backups = <<>>
    /\ last = NoCall
    /\ done = <<>>
    /\ lives = 0
    /\ loaded = <<>>
    /\ rt = RtIdle
    /\ col = ColIdle
    /\ sr = SrIdle
    /\ ex = ExIdle
    /\ pace = NoDelayOwed
    /\ fn = FnIdle

\* the script starts: db = PaperDatabase()
Start(renameOk) == proc = "off" /\ Construct(renameOk)

\* the script is started again after it ended
Restart(renameOk) == proc # "off" /\ Construct(renameOk)

\* one run of a script, from its start
Next ==
    \/ \E renameOk \in BOOLEAN : Start(renameOk)
    \/ \E p \in SaveInputs(venue) : SavePaper(p)
    \/ \E p \in SaveInputs(venue), opened \in BOOLEAN, n \in 0..MaxFileLen + NumIds :
            SavePaperRaises(p, opened, n)
    \/ \E k \in Ids : HasPaper(k)

Spec == Init /\ [][Next]_vars

\* runs that end at any point, also inside a write, and later starts
NextCrash ==
    \/ \E renameOk \in BOOLEAN : Start(renameOk)
    \/ \E p \in SaveInputs(venue) : SavePaper(p)
    \/ \E k \in Ids : HasPaper(k)
    \/ \E renameOk \in BOOLEAN : Restart(renameOk)
    \/ \E p \in SaveInputs(venue), n \in 0..MaxFileLen + NumIds : SavePaperKilled(p, n)
    \/ Kill

SpecCrash == Init /\ [][NextCrash]_vars

-----------------------------------------------------------------------------
(* Construction over every kind of persisted file                          *)

InitLoad ==
    /\ venue \in Venues
    /\ proc = "off"
    /\ papers = <<>>
    /\ file \in InitFiles(venue)
    /\ backups = <<>>
    /\ last = NoCall
    /\ done = <<>>
    /\ lives = 0
    /\ loaded = <<>>
    /\ rt = RtIdle
    /\ col = ColIdle
    /\ sr = SrIdle
    /\ ex = ExIdle
    /\ pace = NoDelayOwed
    /\ fn = FnIdle

NextLoad ==
    \/ \E renameOk \in BOOLEAN : Start(renameOk)
    \/ \E k \in Ids : HasPaper(k)

SpecLoad == InitLoad /\ [][NextLoad]_vars

-----------------------------------------------------------------------------
(* The completeness check over stores holding every combination of fields  *)

RECURSIVE StoresOver(_, _, _)
\* the dicts of records of recs whose keys are the identities of the set ids,
\* in every order
StoresOver(v, ids, recs) ==
    IF ids = {} THEN {<<>>}
    ELSE UNION {{Append(m, p) : m \in StoresOver(v, ids \ {id}, recs),
                                p \in {q \in recs : q[IdAttr(v)] = id}} : id \in ids}

GateStores(v) == UNION {StoresOver(v, ids, GateInputs(v)) : ids \in SUBSET Ids}

InitGate ==
    /\ venue \in Venues
    /\ proc = "off"
    /\ papers = <<>>
    /\ file \in {Doc(Serialize(venue, m)) : m \in GateStores(venue)}
    /\ backups = <<>>
    /\ last = NoCall
    /\ done = <<>>
    /\ lives = 0
    /\ loaded = <<>>
    /\ rt = RtIdle
    /\ col = ColIdle
    /\ sr = SrIdle
    /\ ex = ExIdle
    /\ pace = NoDelayOwed
    /\ fn = FnIdle

NextGate ==
    \/ \E renameOk \in BOOLEAN : Start(renameOk)
    \/ \E k \in Ids : HasPaper(k)

SpecGate == InitGate /\ [][NextGate]_vars

-----------------------------------------------------------------------------
(* The retrying session: Retry(total, read, connect, status_forcelist)     *)
(* mounted on the session's adapter, and one session.get through it        *)

MaxRetries == 3         \* largest retry count a session is configured with

IrosTotal == 5          \* iros24.py: Retry(total=5, ...)

SessionVenues == {"acl", "cvpr", "dex", "iros24"}

\* a retry counter: <<n>>, or <<>> for None (not counted)
Counter(n) == <<n>>
NoCounter == <<>>

\* Retry(total=retries, read=retries, connect=retries, ...) of RetryingSession;
\* Retry(total=5, ...) of iros24.py leaves read and connect at None
SessionRetry(v, retries) ==
    IF v = "iros24"
    THEN [total |-> Counter(IrosTotal), connect |-> NoCounter, read |-> NoCounter]
    ELSE [total |-> Counter(retries), connect |-> Counter(retries), read |-> Counter(retries)]

\* the retry count the session of venue v is configured with
RetryCount(v, retries) == IF v = "iros24" THEN IrosTotal ELSE retries

AttemptFailures == {"connect_error", "read_error", "status_listed"}
\* a response whose status is not in status_forcelist goes back to the caller
AttemptOutcomes == AttemptFailures \cup {"response"}

Dec(c) == IF c = NoCounter THEN NoCounter ELSE Counter(c[1] - 1)

\* the counters after one more failure: total always, and the failure's own
Increment(r, failure) ==
    [total |-> Dec(r.total),
     connect |-> IF failure = "connect_error" THEN Dec(r.connect) ELSE r.connect,
     read |-> IF failure = "read_error" THEN Dec(r.read) ELSE r.read]

\* a session that gives up when a counter reaches zero
Exhausted_AtZero(r) == \E c \in {r.total, r.connect, r.read} : c # NoCounter /\ c[1] <= 0

\* no retry is left when a counter that is counted fell below zero
Exhausted(r) == \E c \in {r.total, r.connect, r.read} : c # NoCounter /\ c[1] < 0

\* session.get(url) is called
RtBegin(retries) ==
    /\ venue \in SessionVenues
    /\ rt.pc = "idle"
    /\ rt' = [pc |-> "trying", R |-> RetryCount(venue, retries),
              retry |-> SessionRetry(venue, retries), attempts |-> 0]
    /\ UNCHANGED <<storeVars, col, sr, ex, pace, fn>>

\* one attempt of the request goes out and ends with outcome
RtAttempt(outcome) ==
    /\ rt.pc = "trying"
    /\ LET r == Increment(rt.retry, outcome)
       IN rt' = IF outcome = "response"
                THEN [rt EXCEPT !.pc = "returned", !.attempts = @ + 1]
                ELSE [rt EXCEPT !.pc = IF Exhausted(r) THEN "raised" ELSE "trying",
                                !.retry = r, !.attempts = @ + 1]
    /\ UNCHANGED <<storeVars, col, sr, ex, pace, fn>>

InitRetry ==
    /\ venue \in SessionVenues
    /\ proc = "off"
    /\ papers = <<>>
    /\ file = NoFile
    /\ backups = <<>>
    /\ last = NoCall
    /\ done = <<>>
    /\ lives = 0
    /\ loaded = <<>>
    /\ rt = RtIdle
    /\ col = ColIdle
    /\ sr = SrIdle
    /\ ex = ExIdle
    /\ pace = NoDelayOwed
    /\ fn = FnIdle

NextRetry ==
    \/ \E retries \in 0..MaxRetries : RtBegin(retries)
    \/ \E outcome \in AttemptOutcomes : RtAttempt(outcome)

SpecRetry == InitRetry /\ [][NextRetry]_vars

-----------------------------------------------------------------------------
(* The collectors: one loop iteration per candidate of the listing         *)

\* how the fetch or the extraction for one candidate ends
ItemFailures == {"transport_error", "error_status", "unparsable"}
\* "full": abstract and link found; "partial": no abstract found;
\* "link_only": the page of the candidate gives a link and no abstract;
\* "rejected": no accept decision (iclr23, iclr25)
ItemOutcomes(v) ==
    IF v = "acl" THEN {"full", "partial", "unparsable"}      \* no request per candidate
    ELSE IF v = "neurips24" THEN {"full", "partial"}         \* no request per candidate
    ELSE IF v = "iclr25" THEN {"full", "partial", "rejected"}
    ELSE IF v = "iclr23" THEN {"full", "partial", "rejected"} \cup ItemFailures
    ELSE IF v \in {"rss24", "siggraph23"} THEN {"full", "partial", "link_only"} \cup ItemFailures
    ELSE {"full", "partial"} \cup ItemFailures

\* what one iteration does: whether it sent a request for the candidate, and
\* whether it skips it as done, drops it, saves paper, or raises
It(fetched, act, paper) == [fetched |-> fetched, act |-> act, paper |-> paper]

\* a record with the link and without abstract
LinkOnly(v, k) == MkPaper(v, k, NONE, "url", NONE)

\* the fresh Paper object of an iteration, with the fields the request gave
Found(v, k, o) ==
    IF o = "full" THEN FullPaper(v, k)
    ELSE IF o = "link_only" THEN LinkOnly(v, k)
    ELSE BarePaper(v, k)

\* acl.py scrape_acl_papers: has_paper, then parse_paper_element (None on any error)
scrape_acl_papers(m, k, o) ==
    IF has_paper("acl", m, k) THEN It(FALSE, "skip", BarePaper("acl", k))
    ELSE IF o \in ItemFailures THEN It(FALSE, "drop", BarePaper("acl", k))
    ELSE It(FALSE, "save", Found("acl", k, o))

\* cvpr.py process_paper_element: the skip check looks up the title of the
\* listing entry, the Paper carries the title of the detail page;
\* parse_paper_page returns None on any error
process_titled_element(m, title, page_title, o) ==
    IF has_paper("cvpr", m, title) /\ IsFull(DictGet("cvpr", m, title))
    THEN It(FALSE, "skip", BarePaper("cvpr", title))
    ELSE IF o \in ItemFailures THEN It(TRUE, "drop", BarePaper("cvpr", title))
    ELSE It(TRUE, "save", Found("cvpr", page_title, o))

\* the same over a listing whose titles are those of the detail pages
process_paper_element(m, k, o) == process_titled_element(m, k, k, o)

\* dex.py process_arxiv_list: fetch_arxiv_metadata first (None on any error),
\* then has_paper(paper.title)
process_arxiv_list(m, k, o) ==
    IF o \in ItemFailures THEN It(TRUE, "drop", BarePaper("dex", k))
    ELSE IF has_paper("dex", m, k) THEN It(TRUE, "skip", BarePaper("dex", k))
    ELSE It(TRUE, "save", Found("dex", k, o))

\* a loop that requests the paper page before it looks at the store
scrape_rss_papers_FetchFirst(m, k, o) ==
    IF has_paper("rss24", m, k)
        /\ Truthy(DictGet("rss24", m, k)["pdf_link"])
        /\ Truthy(DictGet("rss24", m, k)["abstract"])
    THEN It(TRUE, "skip", BarePaper("rss24", k))
    ELSE It(TRUE, "save", Found("rss24", k, o))

\* rss24.py scrape_rss_papers: scrape_individual_paper gives (None, None) on a
\* request error; the paper is saved in every case
scrape_rss_papers(m, k, o) ==
    IF has_paper("rss24", m, k)
        /\ Truthy(DictGet("rss24", m, k)["pdf_link"])
        /\ Truthy(DictGet("rss24", m, k)["abstract"])
    THEN It(FALSE, "skip", BarePaper("rss24", k))
    ELSE It(TRUE, "save", Found("rss24", k, o))

\* neurips24.py scrape_neurips_papers: every field comes with the submission
scrape_neurips_papers(m, k, o) ==
    IF has_paper("neurips24", m, k) THEN It(FALSE, "skip", BarePaper("neurips24", k))
    ELSE It(FALSE, "save", MkPaper("neurips24", k, IF o = "full" THEN "abs" ELSE "", "url", NONE))

\* iclr25.py scrape_iclr2025_papers: saved only with an accept decision
scrape_iclr2025_papers(m, k, o) ==
    IF has_paper("iclr25", m, k) THEN It(FALSE, "skip", BarePaper("iclr25", k))
    ELSE IF o = "rejected" THEN It(FALSE, "drop", BarePaper("iclr25", k))
    ELSE It(FALSE, "save", MkPaper("iclr25", k, IF o = "full" THEN "abs" ELSE "", "url", NONE))

\* eccv24.py scrape_eccv_papers: get_doi_page_html gives None on a request
\* error; the paper is saved in every case
scrape_eccv_papers(m, k, o) ==
    IF has_paper("eccv24", m, k) /\ Truthy(DictGet("eccv24", m, k)["abstract"])
    THEN It(FALSE, "skip", BarePaper("eccv24", k))
    ELSE It(TRUE, "save", IF o = "full" THEN FullPaper("eccv24", k) ELSE LinkOnly("eccv24", k))

\* siggraph23.py process_siggraph_papers: search_google_scholar catches the
\* request error, and calls response.json() outside the try
process_siggraph_papers(m, k, o) ==
    IF has_paper("siggraph23", m, k) /\ Truthy(DictGet("siggraph23", m, k)["abstract"])
    THEN It(FALSE, "skip", BarePaper("siggraph23", k))
    ELSE IF o = "unparsable" THEN It(TRUE, "raise", BarePaper("siggraph23", k))
    ELSE It(TRUE, "save", Found("siggraph23", k, o))

\* iclr23.py, the loop of the script: a submission without abstract is passed
\* over (KeyError), a failed decision request leaves it not accepted
iclr23_loop(m, k, o) ==
    IF has_paper("iclr23", m, k) THEN It(FALSE, "skip", BarePaper("iclr23", k))
    ELSE IF o = "partial" THEN It(FALSE, "drop", BarePaper("iclr23", k))
    ELSE IF o \in ItemFailures \cup {"rejected"} THEN It(TRUE, "drop", BarePaper("iclr23", k))
    ELSE It(TRUE, "save", FullPaper("iclr23", k))

\* iros24.py main: search_arxiv_for_paper gives (None, None) on a request
\* error or ParseError; the paper is saved in every case
iros24_main(m, k, o) ==
    IF k \in Keys("iros24", m) /\ Truthy(DictGet("iros24", m, k)["arxiv_pdf"])
    THEN It(FALSE, "skip", BarePaper("iros24", k))
    ELSE It(TRUE, "save", IF o = "full" THEN FullPaper("iros24", k)
                          ELSE IF o = "partial" THEN LinkOnly("iros24", k)
                          ELSE BarePaper("iros24", k))

\* nature.py fetch_papers_for_journal: fetch_doi_abstract gives None on every
\* failure and when no abstract is found
nature_fetch_papers_for_journal(m, k, o) ==
    IF has_paper("nature", m, k) THEN It(FALSE, "skip", BarePaper("nature", k))
    ELSE IF o = "full" THEN It(TRUE, "save", FullPaper("nature", k))
    ELSE It(TRUE, "drop", BarePaper("nature", k))

\* pharm.py fetch_papers_for_journal: fetch_doi_abstract has no try; an
\* abstract shorter than 20 characters is passed over
pharm_fetch_papers_for_journal(m, k, o) ==
    IF has_paper("pharm", m, k) THEN It(FALSE, "skip", BarePaper("pharm", k))
    ELSE IF o \in ItemFailures THEN It(TRUE, "raise", BarePaper("pharm", k))
    ELSE IF o = "full" THEN It(TRUE, "save", FullPaper("pharm", k))
    ELSE It(TRUE, "drop", BarePaper("pharm", k))

\* science.py fetch_papers_for_journal: both requests catch their errors
science_fetch_papers_for_journal(m, k, o) ==
    IF has_paper("science", m, k) THEN It(FALSE, "skip", BarePaper("science", k))
    ELSE IF o = "full" THEN It(TRUE, "save", FullPaper("science", k))
    ELSE It(TRUE, "drop", BarePaper("science", k))

\* quantum.py fetch_papers_for_journal: both requests catch their errors
quantum_fetch_papers_for_journal(m, k, o) ==
    IF has_paper("quantum", m, k) THEN It(FALSE, "skip", BarePaper("quantum", k))
    ELSE IF o = "full" THEN It(TRUE, "save", FullPaper("quantum", k))
    ELSE It(TRUE, "drop", BarePaper("quantum", k))

Iteration(v, m, k, o) ==
    CASE v = "acl" -> scrape_acl_papers(m, k, o)
      [] v = "cvpr" -> process_paper_element(m, k, o)
      [] v = "dex" -> process_arxiv_list(m, k, o)
      [] v = "rss24" -> scrape_rss_papers(m, k, o)
      [] v = "neurips24" -> scrape_neurips_papers(m, k, o)
      [] v = "iclr25" -> scrape_iclr2025_papers(m, k, o)
      [] v = "eccv24" -> scrape_eccv_papers(m, k, o)
      [] v = "siggraph23" -> process_siggraph_papers(m, k, o)
      [] v = "iclr23" -> iclr23_loop(m, k, o)
      [] v = "iros24" -> iros24_main(m, k, o)
      [] v = "nature" -> nature_fetch_papers_for_journal(m, k, o)
      [] v = "pharm" -> pharm_fetch_papers_for_journal(m, k, o)
      [] v = "science" -> science_fetch_papers_for_journal(m, k, o)
      [] v = "quantum" -> quantum_fetch_papers_for_journal(m, k, o)

\* the run functions whose loop stands inside try: ... except Exception: print
CatchesAll(v) == v \in {"acl", "cvpr", "rss24", "neurips24", "iclr25", "iros24"}

-----------------------------------------------------------------------------
(* One run of a collector over the candidates of its listing               *)

\* the candidates, in listing order
Candidate(i) == IdNames[i]

WriteOutcomes == {"ok", "open_fails", "dump_fails"}

\* a call to the arXiv API goes out: a delay still owed was not waited for
Call(p) == [owed |-> TRUE, rushed |-> p.rushed \/ p.owed]
\* time.sleep(...) after a call
Sleep(p) == [p EXCEPT !.owed = FALSE]

\* dex.py process_arxiv_list: every iteration calls the arXiv API; the
\* time.sleep(rate_limit_s) at the end of the body is reached unless the
\* iteration left through continue or an exception. The other loops are
\* not followed here.
LoopPace(v, act, w, p) ==
    IF v # "dex" THEN p
    ELSE IF act = "skip" \/ (act = "save" /\ w = "ok") THEN Sleep(Call(p))
    ELSE Call(p)

\* the listing was fetched and parsed; the loop starts
RunBegin ==
    /\ proc = "ready"
    /\ col.pc = "idle"
    /\ col' = [pc |-> "loop", i |-> 1, seen |-> {}, fetched |-> {}, written |-> {},
               failed |-> {}, wfail |-> 0]
    /\ UNCHANGED <<storeVars, rt, sr, ex, pace, fn>>

\* the loop goes on to the next candidate, or ends after the last one
Advance(c) == [c EXCEPT !.i = @ + 1, !.pc = IF c.i = NumIds THEN "returned" ELSE "loop"]

\* an exception leaves the loop: caught and printed by the run function, or
\* raised out of it
Leave(c) == [c EXCEPT !.pc = IF CatchesAll(venue) THEN "returned" ELSE "raised"]

\* one iteration of the loop: o is how the candidate's fetch or extraction
\* ends, w how the file write of save_paper ends
RunStep(o, w) ==
    /\ proc = "ready"
    /\ col.pc = "loop"
    /\ o \in ItemOutcomes(venue)
    /\ LET k == Candidate(col.i)
           r == Iteration(venue, papers, k, o)
           c == [col EXCEPT !.seen = @ \cup {k},
                            !.fetched = IF r.fetched THEN @ \cup {k} ELSE @,
                            !.failed = IF o \in ItemFailures /\ r.act # "skip"
                                       THEN @ \cup {k} ELSE @]
       IN /\ CASE r.act \in {"skip", "drop"} ->
                 /\ w = "ok"
                 /\ col' = Advance(c)
                 /\ last' = [op |-> "iter", arg |-> k, res |-> r.act, repeat |-> FALSE]
                 /\ UNCHANGED <<venue, proc, papers, file, backups, done, lives, loaded>>
            [] r.act = "raise" ->
                 /\ w = "ok"
                 /\ col' = Leave(c)
                 /\ proc' = IF CatchesAll(venue) THEN proc ELSE "raised"
                 /\ last' = [op |-> "iter", arg |-> k, res |-> r.act, repeat |-> FALSE]
                 /\ UNCHANGED <<venue, papers, file, backups, done, lives, loaded>>
            [] r.act = "save" /\ w = "ok" ->
                 /\ SaveStore(r.paper)
                 /\ col' = Advance([c EXCEPT !.written = @ \cup {k}])
                 /\ UNCHANGED proc
            [] r.act = "save" /\ w # "ok" ->
                 /\ SaveRaisesStore(r.paper, w = "dump_fails", 0)
                 /\ col' = Leave([c EXCEPT !.wfail = c.i])
                 /\ proc' = IF CatchesAll(venue) THEN proc ELSE "raised"
          /\ pace' = LoopPace(venue, r.act, w, pace)
    /\ UNCHANGED <<rt, sr, ex, fn>>

\* the stores a run may find: any of the candidates, with or without abstract
RunStores(v) == UNION {StoresOver(v, ids, SaveInputs(v)) : ids \in SUBSET Ids}

InitRun ==
    /\ venue \in Venues
    /\ proc = "off"
    /\ papers = <<>>
    /\ file \in {NoFile} \cup {Doc(Serialize(venue, m)) : m \in RunStores(venue) \ {<<>>}}
    /\ backups = <<>>
    /\ last = NoCall
    /\ done = <<>>
    /\ lives = 0
    /\ loaded = <<>>
    /\ rt = RtIdle
    /\ col = ColIdle
    /\ sr = SrIdle
    /\ ex = ExIdle
    /\ pace = NoDelayOwed
    /\ fn = FnIdle

NextRun ==
    \/ Start(TRUE)
    \/ RunBegin
    \/ \E o \in {"full", "partial", "link_only", "rejected"} \cup ItemFailures, w \in WriteOutcomes :
            RunStep(o, w)

SpecRun == InitRun /\ [][NextRun]_vars

-----------------------------------------------------------------------------
(* A run interrupted between two candidates, and the rerun                  *)

\* the identities whose last returned save_paper stored an abstract and a link
UpsertedComplete ==
    {k \in DOMAIN done : Truthy(done[k][AbstractAttr(venue)]) /\ Truthy(done[k][PdfAttr(venue)])}

\* the process is ended (KeyboardInterrupt, kill) after one candidate's
\* iteration and before the next one's
RunKill ==
    /\ proc = "ready"
    /\ col.pc = "loop"
    /\ col.i > 1
    /\ proc' = "dead"
    /\ last' = [op |-> "kill", arg |-> NONE, res |-> NONE, repeat |-> FALSE]
    /\ col' = [pc |-> "killed", prior |-> UpsertedComplete]
    /\ UNCHANGED <<venue, papers, file, backups, done, lives, loaded, rt, sr, ex, pace, fn>>

\* the script, started again, fetched the same listing; the loop starts over
Rerun ==
    /\ proc = "ready"
    /\ col.pc = "killed"
    /\ col' = [pc |-> "loop", i |-> 1, seen |-> {}, fetched |-> {}, written |-> {},
               failed |-> {}, wfail |-> 0, prior |-> col.prior]
    /\ UNCHANGED <<storeVars, rt, sr, ex, pace, fn>>

NextResume ==
    \/ Start(TRUE)
    \/ RunBegin
    \/ \E o \in ItemFailures \cup {"full", "partial", "link_only", "rejected"}, w \in WriteOutcomes :
            RunStep(o, w)
    \/ RunKill
    \/ Restart(TRUE)
    \/ Rerun

SpecResume == InitRun /\ [][NextResume]_vars

-----------------------------------------------------------------------------
(* Text: a str is the sequence of its characters                            *)

UpperChars == <<"A", "B", "C", "D", "E", "F", "G", "H", "I", "J", "K", "L", "M",
                "N", "O", "P", "Q", "R", "S", "T", "U", "V", "W", "X", "Y", "Z">>
LowerChars == <<"a", "b", "c", "d", "e", "f", "g", "h", "i", "j", "k", "l", "m",
                "n", "o", "p", "q", "r", "s", "t", "u", "v", "w", "x", "y", "z">>
DigitChars == <<"0", "1", "2", "3", "4", "5", "6", "7", "8", "9">>

Range(s) == {s[i] : i \in 1..Len(s)}

\* two characters outside ASCII, named by code point: LATIN CAPITAL LETTER I
\* WITH DOT ABOVE, a letter, and COMBINING DOT ABOVE, a mark
DottedCapitalI == "U+0130"
CombiningDot == "U+0307"

\* c.isalnum(), c.isspace()
isalnum(c) ==
    c \in Range(UpperChars) \cup Range(LowerChars) \cup Range(DigitChars) \cup {DottedCapitalI}
isspace(c) == c \in {" ", "\n", "\t"}

\* c.lower(): a str, of two characters for U+0130
lower(c) ==
    IF c \in Range(UpperChars)
    THEN <<LowerChars[CHOOSE i \in 1..Len(UpperChars) : UpperChars[i] = c]>>
    ELSE IF c = DottedCapitalI THEN <<"i", CombiningDot>>
    ELSE <<c>>

\* s.strip()
RECURSIVE lstrip(_)
lstrip(s) == IF s # <<>> /\ isspace(Head(s)) THEN lstrip(Tail(s)) ELSE s
RECURSIVE rstrip(_)
rstrip(s) == IF s # <<>> /\ isspace(s[Len(s)]) THEN rstrip(SubSeq(s, 1, Len(s) - 1)) ELSE s
strip(s) == rstrip(lstrip(s))

\* length of the longest prefix of s made of characters outside stop
RECURSIVE RunLen(_, _)
RunLen(s, stop) == IF s = <<>> \/ Head(s) \in stop THEN 0 ELSE 1 + RunLen(Tail(s), stop)

\* s.split(): the maximal runs of non-whitespace characters
RECURSIVE split(_)
split(s) ==
    IF s = <<>> THEN <<>>
    ELSE IF isspace(Head(s)) THEN split(Tail(s))
    ELSE LET n == RunLen(s, {" ", "\n", "\t"})
         IN <<SubSeq(s, 1, n)>> \o split(SubSeq(s, n + 1, Len(s)))

\* s.split(sep): the pieces between the separators, empty ones included
RECURSIVE split_on(_, _)
split_on(s, sep) ==
    LET n == RunLen(s, {sep})
    IN IF n = Len(s) THEN <<s>>
       ELSE <<SubSeq(s, 1, n)>> \o split_on(SubSeq(s, n + 2, Len(s)), sep)

\* sep.join(parts)
RECURSIVE join(_, _)
join(sep, parts) ==
    IF parts = <<>> THEN <<>>
    ELSE IF Len(parts) = 1 THEN parts[1]
    ELSE parts[1] \o sep \o join(sep, Tail(parts))

\* ''.join(c.lower() for c in s if c.isalnum() or c.isspace())
RECURSIVE KeepAlnumSpaceLower(_)
KeepAlnumSpaceLower(s) ==
    IF s = <<>> THEN <<>>
    ELSE IF isalnum(Head(s)) \/ isspace(Head(s))
    THEN lower(Head(s)) \o KeepAlnumSpaceLower(Tail(s))
    ELSE KeepAlnumSpaceLower(Tail(s))

-----------------------------------------------------------------------------
(* iros24.py: title similarity and last names                               *)

normalize_title(title) == join(<<" ">>, split(KeepAlnumSpaceLower(title)))

\* difflib.SequenceMatcher.find_longest_match without junk: the longest block
\* a[i..i+k-1] = b[j..j+k-1]; of the longest ones the one that starts earliest
\* in a, and of those the one that starts earliest in b
MatchingBlocks(a, b) ==
    {blk \in (1..Len(a)) \X (1..Len(b)) \X (1..Len(a)) :
        /\ blk[1] + blk[3] - 1 <= Len(a)
        /\ blk[2] + blk[3] - 1 <= Len(b)
        /\ SubSeq(a, blk[1], blk[1] + blk[3] - 1) = SubSeq(b, blk[2], blk[2] + blk[3] - 1)}

find_longest_match(a, b) ==
    CHOOSE blk \in MatchingBlocks(a, b) :
        \A o \in MatchingBlocks(a, b) :
            \/ blk[3] > o[3]
            \/ blk[3] = o[3] /\ blk[1] < o[1]
            \/ blk[3] = o[3] /\ blk[1] = o[1] /\ blk[2] <= o[2]

\* sum of the sizes of SequenceMatcher.get_matching_blocks(): the longest
\* block, then the same to the left and to the right of it
RECURSIVE MatchedChars(_, _)
MatchedChars(a, b) ==
    IF MatchingBlocks(a, b) = {} THEN 0
    ELSE LET blk == find_longest_match(a, b)
         IN blk[3]
            + MatchedChars(SubSeq(a, 1, blk[1] - 1), SubSeq(b, 1, blk[2] - 1))
            + MatchedChars(SubSeq(a, blk[1] + blk[3], Len(a)), SubSeq(b, blk[2] + blk[3], Len(b)))

\* SequenceMatcher.ratio(): 2.0 * matches / length, 1.0 for two empty strings;
\* the quotient is kept as a fraction
Frac(n, d) == [n |-> n, d |-> d]
ratio(a, b) ==
    IF Len(a) + Len(b) = 0 THEN Frac(1, 1) ELSE Frac(2 * MatchedChars(a, b), Len(a) + Len(b))

FracLess(x, y) == x.n * y.d < y.n * x.d

calculate_title_similarity(title1, title2) == ratio(normalize_title(title1), normalize_title(title2))

normalize_author_name(name) == join(<<" ">>, split(KeepAlnumSpaceLower(name)))

\* the last whitespace-separated part of every comma-separated piece, normalized
get_last_names(authors_str) ==
    LET authors == split_on(authors_str, ",")
    IN {normalize_author_name(split(authors[i])[Len(split(authors[i]))]) :
            i \in {x \in 1..Len(authors) : split(authors[x]) # <<>>}}

-----------------------------------------------------------------------------
(* iros24.py: search_arxiv_for_paper and the loop of main                   *)

MaxEntries == 2         \* entries of one arXiv response

\* search_arxiv_for_paper(..., min_title_similarity: float = 0.8)
min_title_similarity == Frac(4, 5)

\* a row of the accepted-papers table: "Ab: cd" by "A Lee, B Kim"
SourceTitle == <<"A", "b", ":", " ", "c", "d">>
SourceAuthors == <<"A", " ", "L", "e", "e", ",", " ", "B", " ", "K", "i", "m">>

ListedPaper(k) ==
    [MkPaper("iros24", k, NONE, NONE, NONE) EXCEPT !.title = SourceTitle, !.authors = SourceAuthors]

\* titles of arXiv entries: equal to the source title once normalized
\* ("AB\n  CD"), similar to it at 8/10 ("ab ce"), at 6/9 ("ab e")
ArxivTitles ==
    {<<"A", "B", "\n", " ", " ", "C", "D">>,
     <<"a", "b", " ", "c", "e">>,
     <<"a", "b", " ", "e">>}

\* the <author><name> texts of an entry: "A. LEE" and "B Kim" (the source's
\* last names); "C Lee" and "D Roe" (one in common); "D Roe" (none in common);
\* no author element
ArxivAuthors ==
    {<< <<"A", ".", " ", "L", "E", "E">>, <<"B", " ", "K", "i", "m">> >>,
     << <<"C", " ", "L", "e", "e">>, <<"D", " ", "R", "o", "e">> >>,
     << <<"D", " ", "R", "o", "e">> >>,
     << >>}

Entry(title, authors, pdf, summary) ==
    [title |-> title, authors |-> authors, pdf |-> pdf, summary |-> summary]

\* the entries a response may hold; pdf: href of the link titled 'pdf', or
\* None; summary: the stripped text of <summary>, or None
ArxivEntries ==
    {Entry(t, a, "url", "abs") : t \in ArxivTitles, a \in ArxivAuthors}
    \cup {Entry(t, a, NONE, "abs") : t \in {x \in ArxivTitles : Len(x) = 7},
                                     a \in {x \in ArxivAuthors : x # <<>> /\ Len(x[1]) = 6}}

ArxivResponses == SeqsUpTo(ArxivEntries, MaxEntries)

\* calculate_title_similarity(paper_title, arxiv_title) for every title a
\* response may hold
TitleSimilarities == {<<t, calculate_title_similarity(SourceTitle, t)>> : t \in ArxivTitles}
title_similarity(t) == (CHOOSE p \in TitleSimilarities : p[1] = t)[2]

\* iros_last_names = get_last_names(paper_authors)
iros_last_names == get_last_names(SourceAuthors)

\* get_last_names(', '.join(arxiv_authors)) for every author list a response
\* may hold
ArxivLastNames == {<<a, get_last_names(join(<<",", " ">>, a))>> : a \in ArxivAuthors}
arxiv_last_names(a) == (CHOOSE p \in ArxivLastNames : p[1] = a)[2]

NoMatch == <<NONE, NONE>>

\* if title_similarity < min_title_similarity: continue, read at the threshold
TitleBelow_AtThreshold(similarity) == ~FracLess(min_title_similarity, similarity)

\* if title_similarity < min_title_similarity: continue
TitleBelow(similarity) == FracLess(similarity, min_title_similarity)

\* an overlap test that is content with either side naming an author
common_authors_Either(entry) == iros_last_names \cup arxiv_last_names(entry.authors)

\* common_authors = iros_last_names.intersection(arxiv_last_names)
common_authors(entry) == iros_last_names \cap arxiv_last_names(entry.authors)

\* the body of `for entry in entries` for one entry: what the search decides
\* about it
Verdict(entry) ==
    IF TitleBelow(title_similarity(entry.title)) THEN "title_below"
    ELSE IF entry.authors = <<>> THEN "no_author_elem"
    ELSE IF common_authors(entry) = {} THEN "no_common_author"
    ELSE "match"

\* a search that goes through the whole response and keeps the most similar
\* of the entries that match
examine_KeepBest(s, entry) ==
    LET v == Verdict(entry)
        j == Len(s.verdicts) + 1
        better == v = "match"
                    /\ (s.hit = 0 \/ FracLess(title_similarity(s.entries[s.hit].title),
                                              title_similarity(entry.title)))
        t == [s EXCEPT !.verdicts = Append(@, v),
                       !.hit = IF better THEN j ELSE @,
                       !.ret = IF better THEN <<entry.pdf, entry.summary>> ELSE @]
    IN [t EXCEPT !.pc = IF j = Len(s.entries) /\ t.hit > 0 THEN "returned" ELSE "entries",
                 !.examined = j]

\* one pass of `for entry in entries`: continue, or return pdf_url, abstract
examine(s, entry) ==
    LET v == Verdict(entry)
        j == Len(s.verdicts) + 1
    IN IF v = "match"
       THEN [s EXCEPT !.verdicts = Append(@, v), !.examined = j, !.hit = j,
                      !.ret = <<entry.pdf, entry.summary>>, !.pc = "returned"]
       ELSE [s EXCEPT !.verdicts = Append(@, v), !.examined = j]

\* main passes over a paper stored with an arXiv PDF
MainSkip ==
    /\ venue = "iros24" /\ proc = "ready"
    /\ sr.pc = "idle" /\ sr.i <= NumIds
    /\ iros24_main(papers, Candidate(sr.i), "full").act = "skip"
    /\ sr' = [sr EXCEPT !.i = @ + 1]
    /\ last' = [op |-> "iter", arg |-> Candidate(sr.i), res |-> "skip", repeat |-> FALSE]
    /\ UNCHANGED <<venue, proc, papers, file, backups, done, lives, loaded, rt, col, ex, pace, fn>>

SearchOutcomes == {"response", "request_failed", "not_xml"}

\* main calls search_arxiv_for_paper(paper.title, paper.authors): the request,
\* then, unless the request failed, the delay and ET.fromstring
SearchBegin(outcome, entries) ==
    /\ venue = "iros24" /\ proc = "ready"
    /\ sr.pc = "idle" /\ sr.i <= NumIds
    /\ iros24_main(papers, Candidate(sr.i), "full").act # "skip"
    /\ outcome \in SearchOutcomes
    /\ entries \in ArxivResponses
    /\ outcome # "response" => entries = <<>>
    /\ sr' = [sr EXCEPT !.pc = IF outcome = "response" THEN "entries" ELSE "returned",
                        !.entries = entries, !.verdicts = <<>>, !.hit = 0, !.ret = NoMatch,
                        !.outcome = outcome, !.examined = 0]
    /\ pace' = IF outcome = "request_failed" THEN Call(pace) ELSE Sleep(Call(pace))
    /\ last' = [op |-> "search", arg |-> Candidate(sr.i), res |-> outcome, repeat |-> FALSE]
    /\ UNCHANGED <<venue, proc, papers, file, backups, done, lives, loaded, rt, col, ex, fn>>

\* the search of main for its next paper, with any outcome and any response
MainSearch ==
    /\ sr.pc = "idle"
    /\ \E outcome \in SearchOutcomes, entries \in ArxivResponses : SearchBegin(outcome, entries)

\* the loop examines the next entry of the response
SearchEntry ==
    /\ sr.pc = "entries"
    /\ Len(sr.verdicts) < Len(sr.entries)
    /\ sr' = examine(sr, sr.entries[Len(sr.verdicts) + 1])
    /\ UNCHANGED <<storeVars, rt, col, ex, pace, fn>>

\* the loop ran out of entries: return None, None
SearchEnd ==
    /\ sr.pc = "entries"
    /\ Len(sr.verdicts) = Len(sr.entries)
    /\ sr' = [sr EXCEPT !.pc = "returned", !.ret = NoMatch, !.hit = 0,
                        !.examined = Len(sr.verdicts)]
    /\ UNCHANGED <<storeVars, rt, col, ex, pace, fn>>

\* what main stores after the search returned pdf_url, abstract
Enriched(k, ret) ==
    [ListedPaper(k) EXCEPT
        !.arxiv_pdf = IF Truthy(ret[1]) THEN ret[1] ELSE @,
        !.arxiv_abstract = IF Truthy(ret[1]) /\ Truthy(ret[2]) THEN ret[2] ELSE @]

\* a main that stores a paper only when the search found a PDF
MainSave_OnlyWhenFound ==
    /\ proc = "ready"
    /\ sr.pc = "returned"
    /\ IF Truthy(sr.ret[1])
       THEN SaveStore(Enriched(Candidate(sr.i), sr.ret))
       ELSE /\ last' = [op |-> "iter", arg |-> Candidate(sr.i), res |-> "drop", repeat |-> FALSE]
            /\ UNCHANGED <<venue, papers, file, backups, done, lives, loaded>>
    /\ sr' = [sr EXCEPT !.pc = "idle", !.i = @ + 1, !.entries = <<>>, !.verdicts = <<>>]
    /\ UNCHANGED <<proc, rt, col, ex, pace, fn>>

\* main sets the paper's arXiv fields, saves it and goes on to the next paper
MainSave ==
    /\ proc = "ready"
    /\ sr.pc = "returned"
    /\ SaveStore(Enriched(Candidate(sr.i), sr.ret))
    /\ sr' = [sr EXCEPT !.pc = "idle", !.i = @ + 1, !.entries = <<>>, !.verdicts = <<>>]
    /\ UNCHANGED <<proc, rt, col, ex, pace, fn>>

InitArxiv ==
    /\ venue = "iros24"
    /\ proc = "off"
    /\ papers = <<>>
    /\ file \in {NoFile, Doc(<<to_dict("iros24", Enriched(Candidate(1), <<"url", "abs">>))>>)}
    /\ backups = <<>>
    /\ last = NoCall
    /\ done = <<>>
    /\ lives = 0
    /\ loaded = <<>>
    /\ rt = RtIdle
    /\ col = ColIdle
    /\ sr = SrIdle
    /\ ex = ExIdle
    /\ pace = NoDelayOwed
    /\ fn = FnIdle

NextArxiv ==
    \/ Start(TRUE)
    \/ MainSkip
    \/ MainSearch
    \/ SearchEntry
    \/ SearchEnd
    \/ MainSave

SpecArxiv == InitArxiv /\ [][NextArxiv]_vars

\* ---- the two loops that call the arXiv API: iros24 main, dex process_arxiv_list
PaceVenues == {"iros24", "dex"}

InitPace ==
    /\ venue \in PaceVenues
    /\ proc = "off"
    /\ papers = <<>>
    /\ file \in IF venue = "iros24"
               THEN {NoFile, Doc(<<to_dict("iros24", Enriched(Candidate(1), <<"url", "abs">>))>>)}
               ELSE {NoFile} \cup {Doc(Serialize(venue, m)) : m \in RunStores(venue) \ {<<>>}}
    /\ backups = <<>>
    /\ last = NoCall
    /\ done = <<>>
    /\ lives = 0
    /\ loaded = <<>>
    /\ rt = RtIdle
    /\ col = ColIdle
    /\ sr = SrIdle
    /\ ex = ExIdle
    /\ pace = NoDelayOwed
    /\ fn = FnIdle

\* iros24 main, one paper after the other
IrosLoop ==
    /\ venue = "iros24"
    /\ \/ MainSkip
       \/ MainSearch
       \/ SearchEntry
       \/ SearchEnd
       \/ MainSave

\* dex process_arxiv_list, one arXiv id after the other
DexLoop ==
    /\ venue = "dex"
    /\ \/ RunBegin
       \/ \E o \in ItemOutcomes("dex"), w \in WriteOutcomes : RunStep(o, w)

NextPace ==
    \/ Start(TRUE)
    \/ IrosLoop
    \/ DexLoop

SpecPace == InitPace /\ [][NextPace]_vars

-----------------------------------------------------------------------------
(* Abstract extraction: the page strategies of nature.py and eccv24.py, the *)
(* metadata APIs of the journal scripts, and what their loops store         *)

\* if len(p.abstract) < 20 (pharm.py); len(abstract) < 200 (science.py, quantum.py)
PharmMinLength == 20
ScienceMinLength == 200
QuantumMinLength == 200

\* a str taken from a page or an API answer: n characters once stripped, with
\* whitespace around them or not; and what stands where no str is
Text(from, n, pad) == [st |-> "text", from |-> from, n |-> n, pad |-> pad]
Absent == [st |-> "absent"]             \* no such element, select_one / find gives None
Malformed == [st |-> "malformed"]       \* json.loads raises
NoValue == [st |-> "no_value"]          \* the key or attribute is missing
RequestFailed == [st |-> "request_failed"]
NotArticle == [st |-> "not_article"]    \* Crossref type is not journal-article
NoneText == [st |-> "none"]             \* Python's None where a str is expected

\* len(s), bool(s), s.strip() and BeautifulSoup(s).get_text(" ", strip=True)
py_len(t) == IF t.st = "text" THEN t.n + (IF t.pad THEN 2 ELSE 0) ELSE 0
py_bool(t) == t.st = "text" /\ py_len(t) > 0
StripText(t) == [t EXCEPT !.pad = FALSE]

ExtractVenues == {"nature", "eccv24", "pharm", "science", "quantum"}

\* ABSTRACT_PATTERNS (nature.py), Strategy 1..3 (eccv24.py), in their order
Strategies(v) ==
    IF v = "nature" THEN <<"json_ld", "meta", "html">>
    ELSE IF v = "eccv24" THEN <<"section", "body", "meta">>
    ELSE <<>>

\* the values an element, an attribute or an API field may hold
Values(from) == {Text(from, 0, FALSE), Text(from, 0, TRUE), Text(from, 1, TRUE)}

BlankPage ==
    [load |-> "ok", bare |-> FALSE, json_ld |-> Absent, meta |-> Absent, html |-> Absent,
     section |-> Absent, body |-> Absent, api |-> NoValue, authors |-> TRUE,
     inverted |-> NoValue]

\* what fetch_doi_abstract of nature.py may meet: the landing page with its
\* three elements, and the Crossref answer for a bare DOI
NaturePages ==
    {[BlankPage EXCEPT !.load = l] : l \in {"request_failed", "not_original"}}
    \cup {[BlankPage EXCEPT !.bare = b, !.json_ld = j, !.meta = m, !.html = h, !.api = c] :
            b \in BOOLEAN,
            j \in {Absent, Malformed, NoValue} \cup Values("json_ld"),
            m \in {Absent, NoValue} \cup Values("meta"),
            h \in {Absent, Text("html", 0, FALSE), Text("html", 1, TRUE)},
            c \in {RequestFailed, NoValue, Text("crossref", 1, FALSE),
                   Text("crossref", ScienceMinLength, FALSE)}}

\* what fetch_abstract_from_doi_page of eccv24.py may meet
EccvPages ==
    {[BlankPage EXCEPT !.load = "request_failed"]}
    \cup {[BlankPage EXCEPT !.section = s, !.body = b, !.meta = m] :
            s \in {Absent, NoValue, Text("section", 0, FALSE), Text("section", 1, TRUE)},
            b \in {Absent, NoValue, Text("body", 0, FALSE), Text("body", 1, TRUE)},
            m \in {Absent, NoValue} \cup Values("meta")}

\* the answers of Crossref (pharm, science) and Semantic Scholar (quantum),
\* with abstracts around the minimum length, and the inverted index of OpenAlex
ApiPages(v) ==
    IF v = "pharm"
    THEN {[BlankPage EXCEPT !.api = a] :
            a \in {RequestFailed, NoValue, Text("crossref", 0, TRUE),
                   Text("crossref", PharmMinLength - 1, FALSE),
                   Text("crossref", PharmMinLength - 1, TRUE),
                   Text("crossref", PharmMinLength, FALSE)}}
    ELSE LET from == IF v = "science" THEN "crossref" ELSE "semantic_scholar"
             min == IF v = "science" THEN ScienceMinLength ELSE QuantumMinLength
         IN {[BlankPage EXCEPT !.api = a, !.authors = au, !.inverted = iv] :
                a \in {RequestFailed, NotArticle, NoValue, Text(from, 0, TRUE),
                       Text(from, min - 1, FALSE), Text(from, min - 1, TRUE),
                       Text(from, min, FALSE)},
                au \in BOOLEAN,
                iv \in {NoValue, Text("openalex", 1, FALSE)}}

Pages(v) ==
    IF v = "nature" THEN NaturePages ELSE IF v = "eccv24" THEN EccvPages ELSE ApiPages(v)

\* one pass of `for selector, kind in ABSTRACT_PATTERNS` (nature.py): the
\* value of abstract_text after it, and whether the loop was left by break
nature_pattern(page, kind, abstract_text) ==
    LET element == page[kind]
    IN IF kind = "html"
       THEN IF element.st = "text"
            THEN [text |-> StripText(element), brk |-> TRUE]
            ELSE [text |-> abstract_text, brk |-> FALSE]
       ELSE IF py_bool(element)
            THEN [text |-> StripText(element), brk |-> TRUE]
            ELSE [text |-> abstract_text, brk |-> FALSE]

\* one strategy of fetch_abstract_from_doi_page (eccv24.py): whether it
\* returns, and what
eccv_strategy(page, kind) ==
    LET element == page[kind]
    IN IF kind = "meta"
       THEN IF py_bool(element)
            THEN [returns |-> TRUE, value |-> StripText(element)]
            ELSE [returns |-> FALSE, value |-> NoneText]
       ELSE IF element.st = "text"
            THEN [returns |-> TRUE, value |-> StripText(element)]
            ELSE [returns |-> FALSE, value |-> NoneText]

\* nature.py, the Crossref fallback: tried when no pattern set abstract_text
\* and the argument is a bare DOI
nature_crossref(page, abstract_text) ==
    IF abstract_text = NoneText /\ page.bare /\ py_bool(page.api)
    THEN StripText(page.api)
    ELSE abstract_text

\* `if abstract_text: return abstract_text, authors` else None
nature_return(abstract_text) == IF py_bool(abstract_text) THEN abstract_text ELSE NoneText

\* pharm.py fetch_doi_abstract: no try, no status check; item.get("abstract", "")
pharm_fetch_doi_abstract(page) ==
    IF page.api.st = "text" THEN StripText(page.api) ELSE Text("crossref", 0, FALSE)

\* science.py fetch_doi_abstract
science_fetch_doi_abstract(page) ==
    IF page.api.st # "text" \/ ~py_bool(page.api) THEN NoneText
    ELSE LET abstract == StripText(page.api)
         IN IF ~py_bool(abstract) \/ ~page.authors \/ py_len(abstract) < ScienceMinLength
            THEN NoneText ELSE abstract

\* quantum.py fetch_doi_abstract over get_from_semanticscholar
quantum_fetch_doi_abstract(page) ==
    IF page.api.st # "text" \/ ~py_bool(page.api) \/ ~page.authors THEN NoneText
    ELSE LET abstract == StripText(page.api)
         IN IF ~py_bool(abstract) \/ py_len(abstract) < QuantumMinLength
            THEN NoneText ELSE abstract

\* what the loop of the script does with the returned value: the abstract it
\* saves the paper with, or NoneText when it passes the paper over
Kept(v, page, ret) ==
    IF v = "nature" THEN (IF py_bool(ret) THEN ret ELSE NoneText)
    ELSE IF v = "pharm" THEN (IF py_len(ret) < PharmMinLength THEN NoneText ELSE ret)
    ELSE IF py_bool(ret) THEN ret
    ELSE IF py_bool(page.inverted) THEN page.inverted
    ELSE NoneText

\* fetch_doi_abstract / fetch_abstract_from_doi_page is called for a paper
ExBegin(page) ==
    /\ venue \in ExtractVenues /\ proc = "ready"
    /\ ex.pc = "idle"
    /\ page \in Pages(venue)
    /\ ex' = [pc |-> IF page.load # "ok" THEN "returned"
                     ELSE IF Strategies(venue) = <<>> THEN "api" ELSE "chain",
              page |-> page, k |-> 1, abstract_text |-> NoneText, tried |-> {},
              ret |-> NoneText, kept |-> NoneText]
    /\ UNCHANGED <<storeVars, rt, col, sr, pace, fn>>

\* any page, for the paper at hand
Extract ==
    /\ ex.pc = "idle"
    /\ \E page \in Pages(venue) : ExBegin(page)

\* the next strategy of the chain is tried
ExStrategy ==
    /\ ex.pc = "chain"
    /\ LET kind == Strategies(venue)[ex.k]
           last_one == ex.k = Len(Strategies(venue))
       IN IF venue = "nature"
          THEN LET r == nature_pattern(ex.page, kind, ex.abstract_text)
               IN ex' = [ex EXCEPT !.tried = @ \cup {kind}, !.abstract_text = r.text,
                                   !.k = @ + 1,
                                   !.pc = IF r.brk \/ last_one THEN "fallback" ELSE "chain"]
          ELSE LET r == eccv_strategy(ex.page, kind)
               IN ex' = [ex EXCEPT !.tried = @ \cup {kind}, !.ret = r.value,
                                   !.k = @ + 1,
                                   !.pc = IF r.returns \/ last_one THEN "returned" ELSE "chain"]
    /\ UNCHANGED <<storeVars, rt, col, sr, pace, fn>>

\* nature.py after the loop: the Crossref fallback and the final return
ExFallback ==
    /\ ex.pc = "fallback"
    /\ LET text == nature_crossref(ex.page, ex.abstract_text)
       IN ex' = [ex EXCEPT !.abstract_text = text, !.ret = nature_return(text),
                           !.tried = IF ex.abstract_text = NoneText /\ ex.page.bare
                                     THEN @ \cup {"crossref"} ELSE @,
                           !.pc = "returned"]
    /\ UNCHANGED <<storeVars, rt, col, sr, pace, fn>>

\* the API request of pharm, science or quantum, and what comes back from
\* fetch_doi_abstract; in pharm a failing request raises out of the script
ExApi ==
    /\ ex.pc = "api"
    /\ IF venue = "pharm" /\ ex.page.api = RequestFailed
       THEN /\ ex' = [ex EXCEPT !.pc = "raised"]
            /\ proc' = "raised"
            /\ last' = [op |-> "iter", arg |-> Candidate(1), res |-> "raise", repeat |-> FALSE]
            /\ UNCHANGED <<venue, papers, file, backups, done, lives, loaded>>
       ELSE /\ ex' = [ex EXCEPT !.pc = "returned", !.tried = {"api"},
                        !.ret = IF venue = "pharm" THEN pharm_fetch_doi_abstract(ex.page)
                                ELSE IF venue = "science" THEN science_fetch_doi_abstract(ex.page)
                                ELSE quantum_fetch_doi_abstract(ex.page)]
            /\ UNCHANGED storeVars
    /\ UNCHANGED <<rt, col, sr, pace, fn>>

\* the loop of the script after the call: save the paper, or pass it over
ExMain ==
    /\ proc = "ready"
    /\ ex.pc = "returned"
    /\ LET kept == Kept(venue, ex.page, ex.ret)
           abstract == IF py_bool(kept) THEN "abs" ELSE IF kept = NoneText THEN NONE ELSE ""
       IN /\ ex' = [ex EXCEPT !.pc = "done", !.kept = kept]
          /\ IF venue = "eccv24" \/ kept # NoneText
             THEN SaveStore(MkPaper(venue, Candidate(1), abstract, "url", NONE))
             ELSE /\ last' = [op |-> "iter", arg |-> Candidate(1), res |-> "drop", repeat |-> FALSE]
                  /\ UNCHANGED <<venue, papers, file, backups, done, lives, loaded>>
    /\ UNCHANGED <<proc, rt, col, sr, pace, fn>>

InitExtract ==
    /\ venue \in ExtractVenues
    /\ proc = "off"
    /\ papers = <<>>
    /\ file = NoFile
    /\ backups = <<>>
    /\ last = NoCall
    /\ done = <<>>
    /\ lives = 0
    /\ loaded = <<>>
    /\ rt = RtIdle
    /\ col = ColIdle
    /\ sr = SrIdle
    /\ ex = ExIdle
    /\ pace = NoDelayOwed
    /\ fn = FnIdle

NextExtract ==
    \/ Start(TRUE)
    \/ Extract
    \/ ExStrategy
    \/ ExFallback
    \/ ExApi
    \/ ExMain

SpecExtract == InitExtract /\ [][NextExtract]_vars

-----------------------------------------------------------------------------
(* icra.py: the author names of a record                                    *)

MaxNames == 3           \* names in a list handed to dedupe_preserve_order
MaxFieldLen == 5        \* characters of an author field

otherVars == <<storeVars, rt, col, sr, ex, pace>>

\* the strings of at most n characters over the characters chars
Strings(chars, n) == SeqsUpTo(chars, n)

\* names as a caller may pass them: with blanks around them, empty, repeated
NameInputs == {<<"a">>, <<"b">>, <<" ", "a">>, <<"b", " ">>, <<>>, <<" ">>}
NameLists == SeqsUpTo(NameInputs, MaxNames)

\* the author field of a source item: names and semicolons
AuthorFields == Strings({"a", "b", " ", ";"}, MaxFieldLen)

\* a store that moves a name seen again to the end
OrderedDictSet_MoveToEnd(seen, n) == SelectSeq(seen, LAMBDA x : x # n) \o <<n>>

\* seen[n] = None on an OrderedDict: a key already present keeps its place
OrderedDictSet(seen, n) ==
    IF \E j \in 1..Len(seen) : seen[j] = n THEN seen ELSE Append(seen, n)

\* [p.strip() for p in parts]
StripAll(parts) == [j \in 1..Len(parts) |-> strip(parts[j])]

\* [p for p in parts if p]
DropEmpty(parts) == SelectSeq(parts, LAMBDA x : x # <<>>)

FnCall(f, none, field, names) ==
    [pc |-> "call", f |-> f, none |-> none, field |-> field, names |-> names,
     i |-> 1, seen |-> <<>>, out |-> <<>>]

\* normalize_authors(author_field) up to its call of dedupe_preserve_order
normalize_authors ==
    /\ fn.pc = "call" /\ fn.f = "normalize_authors"
    /\ fn' = IF fn.none \/ fn.field = <<>>
             THEN [fn EXCEPT !.pc = "done", !.out = <<>>]
             ELSE [fn EXCEPT !.pc = "loop",
                             !.names = DropEmpty(StripAll(split_on(fn.field, ";")))]
    /\ UNCHANGED otherVars

\* dedupe_preserve_order(names) called on its own: seen = OrderedDict()
dedupe_preserve_order ==
    /\ fn.pc = "call" /\ fn.f = "dedupe_preserve_order"
    /\ fn' = [fn EXCEPT !.pc = "loop"]
    /\ UNCHANGED otherVars

\* for n in names: n = n.strip(); if n: seen[n] = None
DedupeStep ==
    /\ fn.pc = "loop" /\ fn.i <= Len(fn.names)
    /\ LET n == strip(fn.names[fn.i])
       IN fn' = [fn EXCEPT !.i = @ + 1,
                           !.seen = IF n # <<>> THEN OrderedDictSet(@, n) ELSE @]
    /\ UNCHANGED otherVars

\* return list(seen.keys()), and in normalize_authors return ", ".join(parts)
DedupeReturn ==
    /\ fn.pc = "loop" /\ fn.i > Len(fn.names)
    /\ fn' = [fn EXCEPT !.pc = "done",
                        !.out = IF fn.f = "normalize_authors"
                                THEN join(<<",", " ">>, fn.seen) ELSE <<>>]
    /\ UNCHANGED otherVars

InitAuthors ==
    /\ venue = "icra"
    /\ proc = "off"
    /\ papers = <<>>
    /\ file = NoFile
    /\ backups = <<>>
    /\ last = NoCall
    /\ done = <<>>
    /\ lives = 0
    /\ loaded = <<>>
    /\ rt = RtIdle
    /\ col = ColIdle
    /\ sr = SrIdle
    /\ ex = ExIdle
    /\ pace = NoDelayOwed
    /\ fn \in {FnCall("dedupe_preserve_order", FALSE, <<>>, names) : names \in NameLists}
              \cup {FnCall("normalize_authors", FALSE, field, <<>>) : field \in AuthorFields}
              \cup {FnCall("normalize_authors", TRUE, <<>>, <<>>)}

NextAuthors ==
    \/ normalize_authors
    \/ dedupe_preserve_order
    \/ DedupeStep
    \/ DedupeReturn

SpecAuthors == InitAuthors /\ [][NextAuthors]_vars

-----------------------------------------------------------------------------
(* iros24.py: normalize_title over titles, and over pairs of titles that    *)
(* are spellings of one another                                             *)

MaxTitleLen == 3        \* characters of a title
MaxEdits == 2           \* respellings applied to a title

\* letters of both cases, a blank, a punctuation mark, a letter outside ASCII
TitleChars == {"a", "B", " ", "-", DottedCapitalI}
Titles == Strings(TitleChars, MaxTitleLen)

\* c.upper() of an ASCII letter
upper(c) ==
    IF c \in Range(LowerChars)
    THEN <<UpperChars[CHOOSE i \in 1..Len(LowerChars) : LowerChars[i] = c]>>
    ELSE <<c>>

ispunct(c) == ~isalnum(c) /\ ~isspace(c)

\* s with the characters r in place of s[i], and with r put in before s[i]
Replace(s, i, r) == SubSeq(s, 1, i - 1) \o r \o SubSeq(s, i + 1, Len(s))
InsertAt(s, i, r) == SubSeq(s, 1, i - 1) \o r \o SubSeq(s, i, Len(s))

\* the spellings of s with the case of one letter changed
CaseSpellings(s) ==
    {Replace(s, i, lower(s[i])) : i \in {j \in 1..Len(s) : isalnum(s[j])}}
    \cup {Replace(s, i, upper(s[i])) : i \in {j \in 1..Len(s) : isalnum(s[j])}}

\* the spellings of s with one punctuation mark more or less
PunctSpellings(s) ==
    {InsertAt(s, i, <<"-">>) : i \in 1..(Len(s) + 1)}
    \cup {Replace(s, i, <<>>) : i \in {j \in 1..Len(s) : ispunct(s[j])}}

\* the spellings of s with one whitespace run longer or shorter by one
SpaceSpellings(s) ==
    {InsertAt(s, i, <<" ">>) : i \in {j \in 1..Len(s) : isspace(s[j])}}
    \cup {Replace(s, i, <<>>) :
            i \in {j \in 1..(Len(s) - 1) : isspace(s[j]) /\ isspace(s[j + 1])}}

TitlePair(t) ==
    [pc |-> "titles", t |-> t, u |-> t, edits |-> 0,
     norm_title1 |-> <<>>, norm_title2 |-> <<>>, again |-> <<>>, similarity |-> Frac(0, 1)]

\* the second title is respelled once more
Respell ==
    /\ fn.pc = "titles"
    /\ fn.edits < MaxEdits
    /\ \E u \in CaseSpellings(fn.u) \cup PunctSpellings(fn.u) \cup SpaceSpellings(fn.u) :
        fn' = [fn EXCEPT !.u = u, !.edits = @ + 1]
    /\ UNCHANGED otherVars

\* calculate_title_similarity(t, u), and normalize_title applied to its own result
CompareTitles ==
    /\ fn.pc = "titles"
    /\ fn' = [fn EXCEPT !.pc = "compared",
                        !.norm_title1 = normalize_title(fn.t),
                        !.norm_title2 = normalize_title(fn.u),
                        !.again = normalize_title(normalize_title(fn.t)),
                        !.similarity = calculate_title_similarity(fn.t, fn.u)]
    /\ UNCHANGED otherVars

InitTitles ==
    /\ venue = "iros24"
    /\ proc = "off"
    /\ papers = <<>>
    /\ file = NoFile
    /\ backups = <<>>
    /\ last = NoCall
    /\ done = <<>>
    /\ lives = 0
    /\ loaded = <<>>
    /\ rt = RtIdle
    /\ col = ColIdle
    /\ sr = SrIdle
    /\ ex = ExIdle
    /\ pace = NoDelayOwed
    /\ fn \in {TitlePair(t) : t \in Titles}

NextTitles ==
    \/ Respell
    \/ CompareTitles

SpecTitles == InitTitles /\ [][NextTitles]_vars

-----------------------------------------------------------------------------
(* cvpr.py: the title of a listing entry and the title of its detail page   *)

MaxListingLen == 4      \* characters of the text of a listing link

\* texts of a title: words and blanks
TitleTexts == Strings({"a", "b", " "}, MaxListingLen)

\* title = ' '.join(title_link.text.strip().split())
ListingTitle(text) == join(<<" ">>, split(strip(text)))

\* parse_paper_page: the content of <meta name="citation_title"> as it stands,
\* else the stripped text of <div id="papertitle">
PageTitle(page) == IF page.has_meta THEN page.text ELSE strip(page.text)

\* a listing entry and the detail page it links to: the same words
ListingEntries ==
    {[pc |-> "listing", text |-> t, page |-> [has_meta |-> h, text |-> u], acts |-> <<>>] :
        t \in {x \in TitleTexts : split(x) # <<>>},
        u \in TitleTexts, h \in BOOLEAN}

\* process_paper_element for the entry, once per run
ProcessPaperElement(o) ==
    /\ venue = "cvpr" /\ proc = "ready"
    /\ fn.pc = "listing" /\ Len(fn.acts) < lives
    /\ LET r == process_titled_element(papers, ListingTitle(fn.text), PageTitle(fn.page), o)
       IN IF r.act = "save"
          THEN /\ SaveStore(r.paper)
               /\ fn' = [fn EXCEPT !.acts = Append(@, IF IsFull(r.paper) THEN "save_full"
                                                      ELSE "save_partial")]
          ELSE /\ last' = [op |-> "iter", arg |-> ListingTitle(fn.text), res |-> r.act,
                           repeat |-> FALSE]
               /\ fn' = [fn EXCEPT !.acts = Append(@, r.act)]
               /\ UNCHANGED <<venue, papers, file, backups, done, lives, loaded>>
    /\ UNCHANGED <<proc, rt, col, sr, ex, pace>>

\* the run is over
RunEnds ==
    /\ fn.pc = "listing" /\ Len(fn.acts) = lives
    /\ Kill

InitListing ==
    /\ venue = "cvpr"
    /\ proc = "off"
    /\ papers = <<>>
    /\ file = NoFile
    /\ backups = <<>>
    /\ last = NoCall
    /\ done = <<>>
    /\ lives = 0
    /\ loaded = <<>>
    /\ rt = RtIdle
    /\ col = ColIdle
    /\ sr = SrIdle
    /\ ex = ExIdle
    /\ pace = NoDelayOwed
    /\ fn \in {e \in ListingEntries : split(e.page.text) = split(e.text)}

NextListing ==
    \/ Start(TRUE)
    \/ \E o \in {"full", "partial", "transport_error"} : ProcessPaperElement(o)
    \/ RunEnds
    \/ Restart(TRUE)

SpecListing == InitListing /\ [][NextListing]_vars

-----------------------------------------------------------------------------
(* iclr23.py: the paginated fetch of the submissions                        *)

MaxSubmissions == 4     \* submissions the invitation holds
MaxPageLimit == 3       \* page_limit of a run

\* the submissions of the invitation, sort='number:asc'
Submissions(n) == [i \in 1..n |-> i]

\* client.get_notes(limit, offset) answering with n notes
get_notes(source, offset, n) == SubSeq(source, offset + 1, offset + n)

\* sizes of the answer to one call: at most limit, at most what is left
BatchSizes(source, offset, limit) ==
    0..(IF Len(source) - offset < limit
        THEN (IF Len(source) < offset THEN 0 ELSE Len(source) - offset)
        ELSE limit)

\* an accumulator that keeps the last batch only
extend_OnlyBatch(acc, batch) == batch

\* all_submission_notes_accumulator.extend(current_batch)
extend(acc, batch) == acc \o batch

\* the script before its first fetch
PagingStart(n, limit) ==
    [pc |-> "fetch", source |-> Submissions(n), page_limit |-> limit, offset |-> 0,
     accumulator |-> <<>>, submission_notes |-> <<>>, fetching_successful |-> TRUE,
     pages |-> <<>>]

\* one turn of the while loop whose get_notes returns
FetchPage(n) ==
    /\ fn.pc = "fetch"
    /\ n \in BatchSizes(fn.source, fn.offset, fn.page_limit)
    /\ LET current_batch == get_notes(fn.source, fn.offset, n)
       IN fn' = IF current_batch = <<>>
                THEN [fn EXCEPT !.pc = "fetched", !.pages = Append(@, current_batch)]
                ELSE IF Len(current_batch) < fn.page_limit
                THEN [fn EXCEPT !.pc = "fetched", !.pages = Append(@, current_batch),
                                !.accumulator = extend(@, current_batch)]
                ELSE [fn EXCEPT !.pages = Append(@, current_batch),
                                !.accumulator = extend(@, current_batch),
                                !.offset = @ + Len(current_batch)]
    /\ UNCHANGED otherVars

\* one turn of the while loop whose get_notes raises
FetchRaises ==
    /\ fn.pc = "fetch"
    /\ fn' = [fn EXCEPT !.pc = "fetched", !.fetching_successful = FALSE]
    /\ UNCHANGED otherVars

\* submission_notes = all_submission_notes_accumulator; exit() when empty
AfterFetch ==
    /\ fn.pc = "fetched"
    /\ fn' = [fn EXCEPT !.submission_notes = fn.accumulator,
                        !.pc = IF fn.accumulator = <<>> THEN "exit" ELSE "process"]
    /\ UNCHANGED otherVars

InitPages ==
    /\ venue = "iclr23"
    /\ proc = "off"
    /\ papers = <<>>
    /\ file = NoFile
    /\ backups = <<>>
    /\ last = NoCall
    /\ done = <<>>
    /\ lives = 0
    /\ loaded = <<>>
    /\ rt = RtIdle
    /\ col = ColIdle
    /\ sr = SrIdle
    /\ ex = ExIdle
    /\ pace = NoDelayOwed
    /\ fn \in {PagingStart(n, limit) : n \in 0..MaxSubmissions, limit \in 1..MaxPageLimit}

NextPages ==
    \/ \E n \in 0..MaxPageLimit : FetchPage(n)
    \/ FetchRaises
    \/ AfterFetch

SpecPages == InitPages /\ [][NextPages]_vars

\* the script runs on as long as it has a statement to run
SpecPagesFair == SpecPages /\ WF_vars(NextPages)

-----------------------------------------------------------------------------
(* Properties of the store *)

Stored(k) == {i \in 1..Len(papers) : papers[i][IdAttr(venue)] = k}

\* what a later load makes of a record that was written
Reloaded(v, p) == from_dict(v, to_dict(v, p))

\* C1 (as claimed): whenever the process ended, also inside the file write of
\* save_paper, the next PaperDatabase construction yields every record whose
\* save_paper call had returned before.
C1_CompletedSavesSurvive ==
    (last.op = "construct" /\ last.res = "returned") =>
        \A k \in DOMAIN done :
            \E i \in Stored(k) : papers[i] = Reloaded(venue, done[k])

\* C2: a save_paper call that repeats the call right before it, with an equal
\* record, leaves the dict (entries, order, values) and the persisted document
\* as the first call left them.
C2_IdempotentUpsert ==
    [][(last'.op = "save" /\ last'.repeat) => (papers' = papers /\ file' = file)]_vars

C2_Witness ==
    /\ last.op = "save" /\ last.repeat
    /\ Len(papers) = NumIds
    /\ papers[1][IdAttr(venue)] = last.arg

\* C3: from an empty store, after save_paper calls carrying M distinct
\* identities, the dict holds exactly M records and the persisted document
\* exactly M entries, one per identity, each the record of the last save of
\* that identity.
C3_IdentityUniqueness ==
    (proc = "ready" /\ loaded = <<>> /\ DOMAIN done # {}) =>
        /\ Len(papers) = Cardinality(DOMAIN done)
        /\ file.valid
        /\ Len(file.entries) = Cardinality(DOMAIN done)
        /\ \A k \in DOMAIN done :
            /\ \E i \in 1..Len(papers) : papers[i] = done[k]
            /\ \E i \in 1..Len(file.entries) : file.entries[i] = to_dict(venue, done[k])

\* the identity saved first is saved again after the other ones: more calls
\* than identities
C3_Witness ==
    /\ proc = "ready" /\ loaded = <<>>
    /\ Cardinality(DOMAIN done) = NumIds
    /\ Len(papers) = NumIds
    /\ last.op = "save" /\ last.res = "returned" /\ ~last.repeat
    /\ papers[1][IdAttr(venue)] = last.arg
    /\ papers[1] = FullPaper(venue, last.arg)

\* C4 (as claimed): a construction over a file that fails to load leaves the
\* dict empty and exactly one more backup file, which holds the file's content.
C4_CorruptionRecovery ==
    [][(last'.op = "construct" /\ lives' = lives + 1
            /\ last'.arg = "failed" /\ last'.res = "returned")
        => (papers' = <<>> /\ backups' = Append(backups, file))]_vars

\* C5 (as claimed): constructing a PaperDatabase never raises to its caller.
C5_ConstructNeverRaises == ~(last.op = "construct" /\ last.res = "raised")

-----------------------------------------------------------------------------
(* Properties of the retrying session *)

\* C7: a fetch through a session configured with retry count R makes at most
\* R+1 attempts; while every attempt fails it goes on to attempt R+1, and the
\* failure reaches the caller after exactly R+1 attempts.
C7_RetryBound ==
    /\ rt.pc # "idle" => rt.attempts <= rt.R + 1
    /\ rt.pc = "trying" => rt.attempts <= rt.R
    /\ rt.pc = "raised" => rt.attempts = rt.R + 1

\* connect failures, read failures and listed statuses in one fetch
C7_Witness ==
    /\ rt.pc = "raised" /\ venue = "acl"
    /\ rt.R = MaxRetries /\ rt.attempts = MaxRetries + 1
    /\ rt.retry.connect[1] < rt.R
    /\ rt.retry.read[1] < rt.R
    /\ rt.retry.connect[1] + rt.retry.read[1] > rt.R - 1

-----------------------------------------------------------------------------
(* Properties of the collectors *)

RunEnded == col.pc \in {"returned", "raised"}

\* C8 (as claimed): in every collector, a candidate whose fetch or extraction
\* fails does not end the run: a run in which no file write failed has gone
\* through every candidate of the listing when it ends.
C8_OneBadItemDoesNotAbort ==
    (RunEnded /\ col.wfail = 0 /\ col.failed # {}) => col.seen = Ids

\* C9 (as claimed): when the file write of save_paper fails, the error leaves
\* save_paper and the collector's run function (the run does not return
\* normally), and no candidate after the one being saved is processed.
C9_WriteFailurePropagates ==
    (col.pc # "idle" /\ col.wfail # 0) =>
        /\ last.op = "save" /\ last.res = "raised"
        /\ col.pc = "raised"
        /\ col.seen = {Candidate(i) : i \in 1..col.wfail}

\* the record stored under k has a non-empty abstract and a non-empty link
Complete(v, m, k) ==
    \E i \in 1..Len(m) :
        /\ m[i][IdAttr(v)] = k
        /\ Truthy(m[i][AbstractAttr(v)])
        /\ Truthy(m[i][PdfAttr(v)])

\* C10 (as claimed): in acl, cvpr, dex and rss24, the iteration for a candidate
\* that has a complete record in the store sends no request for it and does
\* not write the store.
C10_SkipIfComplete ==
    [][(col.pc = "loop" /\ venue \in {"acl", "cvpr", "dex", "rss24"}
            /\ Complete(venue, papers, Candidate(col.i)))
        => (/\ Candidate(col.i) \notin col'.fetched
            /\ Candidate(col.i) \notin col'.written
            /\ papers' = papers /\ file' = file)]_vars

-----------------------------------------------------------------------------
(* Properties of the collectors over several runs *)

\* C11 (as claimed): in every collector, the iteration for a candidate whose
\* identity is in the store with an incomplete record (empty abstract, or no
\* link) does not skip the candidate.
C11_IncompleteReprocessed ==
    [][(col.pc = "loop"
            /\ Candidate(col.i) \in Keys(venue, papers)
            /\ ~Complete(venue, papers, Candidate(col.i)))
        => ~(last'.op = "iter" /\ last'.arg = Candidate(col.i) /\ last'.res = "skip")]_vars

\* the state is in or after a rerun that followed an interruption
InRerun == "prior" \in DOMAIN col /\ col.pc \in {"loop", "returned", "raised"}

-----------------------------------------------------------------------------
(* Properties of the arXiv search of iros24                                 *)

\* the similarity of entry j's title to the source title, and its last names
Similarity(j) == title_similarity(sr.entries[j].title)
LastNames(j) == arxiv_last_names(sr.entries[j].authors)
SourceLastNames == iros_last_names
Fields(j) == <<sr.entries[j].pdf, sr.entries[j].summary>>

Searching == sr.pc \in {"entries", "returned"} /\ sr.outcome = "response"

\* C13: search_arxiv_for_paper never returns the fields of an entry whose
\* normalized-title similarity to the source title is below 0.8, whatever its
\* authors; the title gate rejects an entry exactly when its similarity is
\* below 0.8, so an entry at 0.8 is not rejected by it.
C13_TitleGate ==
    Searching =>
        /\ \A j \in 1..Len(sr.verdicts) :
                sr.verdicts[j] = "title_below" <=> FracLess(Similarity(j), Frac(4, 5))
        /\ sr.ret # NoMatch => sr.hit > 0
        /\ sr.hit > 0 => /\ sr.ret = Fields(sr.hit)
                         /\ ~FracLess(Similarity(sr.hit), Frac(4, 5))

\* the first entry, below 0.8 and with exactly the source's last names, was
\* rejected, and the second one, at 0.8 exactly, was returned
C13_Witness ==
    /\ sr.pc = "returned" /\ sr.hit = 2
    /\ FracLess(Similarity(1), Frac(4, 5)) /\ LastNames(1) = SourceLastNames
    /\ sr.verdicts[1] = "title_below"
    /\ Similarity(2).n * 5 = Similarity(2).d * 4

\* C14: search_arxiv_for_paper never returns the fields of an entry whose set
\* of normalized last names has no element in common with the source's,
\* whatever the title similarity; an entry that lists no author is never
\* returned.
C14_AuthorGate ==
    Searching =>
        /\ \A j \in 1..Len(sr.verdicts) :
                sr.verdicts[j] = "match" =>
                    /\ LastNames(j) \cap SourceLastNames # {}
                    /\ sr.entries[j].authors # <<>>
        /\ sr.ret # NoMatch => sr.hit > 0
        /\ sr.hit > 0 => /\ sr.ret = Fields(sr.hit)
                         /\ sr.verdicts[sr.hit] = "match"

\* two entries whose titles equal the source title once normalized, one with
\* no last name in common and one with no author, were both rejected
C14_Witness ==
    /\ sr.pc = "returned" /\ sr.outcome = "response" /\ sr.ret = NoMatch
    /\ Len(sr.verdicts) = 2
    /\ \A j \in 1..2 : Similarity(j).n = Similarity(j).d
    /\ \E j \in 1..2 : sr.entries[j].authors # <<>> /\ LastNames(j) \cap SourceLastNames = {}
    /\ \E j \in 1..2 : sr.entries[j].authors = <<>>

\* entry j passes the title gate and the author gate
PassesBoth(j) ==
    /\ ~FracLess(Similarity(j), Frac(4, 5))
    /\ LastNames(j) \cap SourceLastNames # {}

\* C15: when entries of the response pass both gates, search_arxiv_for_paper
\* returns the fields of the first of them in the order of the response, and
\* examines no entry after it.
C15_FirstPassingWins ==
    (Searching /\ sr.pc = "returned" /\ \E j \in 1..Len(sr.entries) : PassesBoth(j)) =>
        /\ sr.hit > 0
        /\ PassesBoth(sr.hit)
        /\ \A j \in 1..(sr.hit - 1) : ~PassesBoth(j)
        /\ sr.ret = Fields(sr.hit)
        /\ Len(sr.verdicts) = sr.hit

\* the first entry was returned although the second one also passes both
\* gates, with a strictly higher similarity and other fields
C15_Witness ==
    /\ Searching /\ sr.pc = "returned" /\ sr.hit = 1
    /\ Len(sr.entries) = 2 /\ PassesBoth(2)
    /\ FracLess(Similarity(1), Similarity(2))
    /\ Fields(1) # Fields(2)

\* C16: in iros24, when the response holds no entry that passes both gates,
\* search_arxiv_for_paper returns (None, None) with every entry examined and
\* nothing raised; main then stores the record with paper_no, authors and title
\* as listed and both arXiv fields empty, and goes on to the next paper.
C16_ResolutionFailureIsNotAnError ==
    [][(sr.pc = "returned" /\ sr.outcome = "response"
            /\ \A j \in 1..Len(sr.entries) : ~PassesBoth(j))
        => /\ sr.ret = NoMatch /\ Len(sr.verdicts) = Len(sr.entries)
           /\ proc = "ready" /\ proc' = "ready"
           /\ Candidate(sr.i) \in Keys(venue, papers')
           /\ DictGet(venue, papers', Candidate(sr.i)) = ListedPaper(Candidate(sr.i))
           /\ file' = Doc(Serialize(venue, papers'))
           /\ sr'.pc = "idle" /\ sr'.i = sr.i + 1]_vars

\* main stored the listing fields alone after a search that examined entries
\* and found none passing, and took the next paper
C16_Witness ==
    /\ sr.pc = "idle" /\ sr.i = 2 /\ proc = "ready"
    /\ sr.outcome = "response" /\ sr.examined = 2 /\ sr.hit = 0
    /\ last.op = "save" /\ last.res = "returned"
    /\ DictGet(venue, papers, Candidate(1)) = ListedPaper(Candidate(1))

\* C25 (as claimed): when search_arxiv_for_paper returned the fields of an
\* entry that passed both gates and that entry has an abstract, the record main
\* saves next holds that abstract, with or without a pdf link in the entry.
C25_AcceptedAbstractStored ==
    [][(proc = "ready" /\ sr.pc = "returned" /\ sr.hit > 0 /\ PassesBoth(sr.hit)
            /\ Truthy(sr.entries[sr.hit].summary))
        => /\ Candidate(sr.i) \in Keys(venue, papers')
           /\ DictGet(venue, papers', Candidate(sr.i))["arxiv_abstract"]
                = sr.entries[sr.hit].summary]_vars

\* the same for the accepted entries that expose a pdf link
AbstractStoredWithPdf ==
    [][(proc = "ready" /\ sr.pc = "returned" /\ sr.hit > 0 /\ PassesBoth(sr.hit)
            /\ Truthy(sr.entries[sr.hit].summary) /\ Truthy(sr.entries[sr.hit].pdf))
        => /\ Candidate(sr.i) \in Keys(venue, papers')
           /\ DictGet(venue, papers', Candidate(sr.i))["arxiv_abstract"]
                = sr.entries[sr.hit].summary]_vars

-----------------------------------------------------------------------------
(* Properties of the abstract extraction                                    *)

\* what the strategy would give for the page on its own, stripped
Yield(page, kind) == IF page[kind].st = "text" THEN StripText(page[kind]) ELSE NoneText

\* the chain of nature.py or eccv24.py has run on a page that was fetched
ChainEnded ==
    /\ venue \in {"nature", "eccv24"}
    /\ ex.pc \in {"returned", "done"}
    /\ ex.page.load = "ok"

\* the first strategy, in the declared order, whose value is not empty
FirstYielding(v, page) ==
    CHOOSE i \in 1..Len(Strategies(v)) :
        /\ py_bool(Yield(page, Strategies(v)[i]))
        /\ \A j \in 1..(i - 1) : ~py_bool(Yield(page, Strategies(v)[j]))

\* C17 (as claimed): fetch_doi_abstract of nature.py returns the value of the
\* earliest of JSON-LD block, meta description tag and DOM abstract container
\* that yields a non-empty value.
C17_ExtractionPriority ==
    (ChainEnded /\ venue = "nature"
        /\ \E i \in 1..3 : py_bool(Yield(ex.page, Strategies("nature")[i])))
    => ex.ret = Yield(ex.page, Strategies("nature")[FirstYielding("nature", ex.page)])

\* C18 (as claimed): in the chains of nature.py and eccv24.py a strategy whose
\* element is absent, malformed or empty never ends the chain: the next one is
\* tried, nothing is raised, and the result is empty only when every strategy
\* yields nothing.
C18_FallThrough ==
    ChainEnded =>
        /\ proc # "raised"
        /\ \A i \in 1..2 :
                (Strategies(venue)[i] \in ex.tried /\ ~py_bool(Yield(ex.page, Strategies(venue)[i])))
                    => Strategies(venue)[i + 1] \in ex.tried
        /\ ~py_bool(ex.ret) => \A i \in 1..3 : ~py_bool(Yield(ex.page, Strategies(venue)[i]))

\* the minimum the claim speaks of; nature.py states none, and the smallest
\* one of the other scripts stands for it
ClaimedMinLength(v) ==
    IF v = "science" THEN ScienceMinLength
    ELSE IF v = "quantum" THEN QuantumMinLength
    ELSE PharmMinLength

\* C19 (as claimed): no script saves a paper whose abstract is a text of
\* Crossref (nature, pharm, science) or Semantic Scholar (quantum) shorter
\* than the minimum length.
C19_MinLengthGate ==
    (ex.pc = "done" /\ last.op = "save" /\ ex.kept.st = "text"
        /\ ex.kept.from \in {"crossref", "semantic_scholar"})
    => py_len(ex.kept) >= ClaimedMinLength(venue)

\* C20: no call to the arXiv API goes out while the courtesy delay after the
\* previous call is still owed, whether that call succeeded or failed
C20_CourtesyDelay == ~pace.rushed

\* the identities of the entries of a persisted document that parses
FileIds(f) == IF f.valid THEN {f.entries[i][IdAttr(venue)] : i \in 1..Len(f.entries)} ELSE {}

\* a step of a constructed PaperDatabase that returns to its caller
LiveCall == proc = "ready" /\ proc' = "ready"

SaveReturns == proc = "ready" /\ last'.op = "save" /\ last'.res = "returned"

\* C22 (as claimed): after every save_paper call that returns, the persisted
\* document is the serialization of the whole dict, one entry per stored
\* identity, and the records under the other identities are the same as
\* before the call, in the dict and in the document.
C22_FullSnapshot ==
    [][SaveReturns =>
        /\ file' = Doc(Serialize(venue, papers'))
        /\ Len(file'.entries) = Cardinality(Keys(venue, papers'))
        /\ FileIds(file') = Keys(venue, papers')
        /\ \A k \in Keys(venue, papers) \ {last'.arg} :
            /\ k \in Keys(venue, papers')
            /\ DictGet(venue, papers', k) = DictGet(venue, papers, k)
            /\ file.valid =>
                \A i \in 1..Len(file.entries) :
                    file.entries[i][IdAttr(venue)] = k =>
                        \E j \in 1..Len(file'.entries) : file'.entries[j] = file.entries[i]]_vars

\* what holds of every save_paper call that returns: the document is the
\* serialization of the dict, and the other records of the dict are untouched
SnapshotOfDict ==
    [][SaveReturns =>
        /\ file' = Doc(Serialize(venue, papers'))
        /\ Len(file'.entries) = Cardinality(Keys(venue, papers'))
        /\ FileIds(file') = Keys(venue, papers')
        /\ \A k \in Keys(venue, papers) \ {last'.arg} :
            /\ k \in Keys(venue, papers')
            /\ DictGet(venue, papers', k) = DictGet(venue, papers, k)
            /\ file'.entries[IndexOf(venue, papers', k)] = to_dict(venue, DictGet(venue, papers, k))]_vars

-----------------------------------------------------------------------------
(* Properties of the author names of icra.py                                *)

\* the position of the first name of the list that is x once stripped
FirstAt(names, x) ==
    CHOOSE i \in 1..Len(names) :
        /\ strip(names[i]) = x
        /\ \A j \in 1..(i - 1) : strip(names[j]) # x

\* the list holds every distinct non-empty stripped name of names exactly
\* once, in the order of the first occurrences
DistinctInFirstOrder(list, names) ==
    /\ {list[j] : j \in 1..Len(list)} = {strip(names[i]) : i \in 1..Len(names)} \ {<<>>}
    /\ \A j, k \in 1..Len(list) : j < k =>
        /\ list[j] # list[k]
        /\ FirstAt(names, list[j]) < FirstAt(names, list[k])

\* C23: dedupe_preserve_order returns each distinct non-empty stripped name of
\* its input exactly once, in the order of first occurrence, and
\* normalize_authors returns those names of the semicolon-separated field,
\* joined by ", ".
C23_DedupeKeepsFirstOrder ==
    fn.pc = "done" =>
        /\ DistinctInFirstOrder(fn.seen, fn.names)
        /\ fn.f = "normalize_authors" =>
            /\ fn.out = join(<<",", " ">>, fn.seen)
            /\ DistinctInFirstOrder(fn.seen, split_on(fn.field, ";"))

\* the field "b;a;b" gives "b, a": the repeated name stays where it came first
C23_Witness ==
    /\ fn.pc = "done" /\ fn.f = "normalize_authors"
    /\ fn.field = <<"b", ";", "a", ";", "b">>
    /\ fn.out = <<"b", ",", " ", "a">>

-----------------------------------------------------------------------------
(* Properties of the title normalization of iros24.py                       *)

\* C24 (as claimed): normalize_title applied to its own result changes
\* nothing, and two titles that differ only in letter case, in punctuation
\* marks or in the length of whitespace runs have the same normalized form
\* and similarity 1, and pass the title gate.
C24_NormalizeTitle ==
    fn.pc = "compared" =>
        /\ fn.again = fn.norm_title1
        /\ fn.norm_title1 = fn.norm_title2
        /\ fn.similarity.n = fn.similarity.d
        /\ ~TitleBelow(fn.similarity)

\* the same over titles of ASCII characters
AsciiTitle(s) == \A i \in 1..Len(s) : s[i] \notin {DottedCapitalI, CombiningDot}
NormalizeAsciiTitle ==
    (fn.pc = "compared" /\ AsciiTitle(fn.t) /\ AsciiTitle(fn.u)) =>
        /\ fn.again = fn.norm_title1
        /\ fn.norm_title1 = fn.norm_title2
        /\ fn.similarity.n = fn.similarity.d
        /\ ~TitleBelow(fn.similarity)

-----------------------------------------------------------------------------
(* Properties of the serialization                                          *)

\* a construction loaded the whole persisted document
LoadsDocument == last'.op = "construct" /\ last'.arg = "loaded"

\* C26 (as claimed): a construction over a document written by save_paper
\* gives records that serialize to the entries of that document, field by
\* field (from_dict undoes to_dict), so that a further save writes every
\* persisted field value unchanged; reloading the document of the dict gives
\* back the dict.
C26_RoundTrip ==
    [][LoadsDocument =>
        /\ Serialize(venue, papers') = file.entries
        /\ \A i \in 1..Len(papers') :
                Reloaded(venue, papers'[i]) = papers'[i]
        /\ file = Doc(Serialize(venue, papers)) => papers' = papers]_vars

\* the same for the Paper classes whose from_dict reads the keys to_dict writes
RoundTripOfMatchingKeys ==
    [][(LoadsDocument /\ venue \notin {"nature", "pharm"}) =>
        /\ Serialize(venue, papers') = file.entries
        /\ \A i \in 1..Len(papers') :
                Reloaded(venue, papers'[i]) = papers'[i]
        /\ file = Doc(Serialize(venue, papers)) => papers' = papers]_vars

-----------------------------------------------------------------------------
(* Properties of the enrichment over several runs                           *)

\* no record of the dict exchanges a non-empty abstract or pdf link for an
\* empty one in this step
KeepsFoundFields ==
    \A k \in Keys(venue, papers) \cap Keys(venue, papers') :
        \A a \in {"abstract", "pdf_link"} :
            Truthy(DictGet(venue, papers, k)[a]) => Truthy(DictGet(venue, papers', k)[a])

\* the loop saved the paper of a candidate
Reprocessed == proc = "ready" /\ col.pc = "loop" /\ last'.op = "save" /\ last'.res = "returned"

\* C27 (as claimed): in rss24, eccv24 and siggraph23 the iteration that
\* processes a candidate again never replaces a non-empty stored abstract or
\* pdf link of its record with an empty one, also when the request for the
\* candidate fails.
C27_MonotoneEnrichment ==
    [][(venue \in {"rss24", "eccv24", "siggraph23"} /\ Reprocessed) => KeepsFoundFields]_vars

\* the same for eccv24, whose link comes with the listing
MonotoneEnrichmentEccv == [][(venue = "eccv24" /\ Reprocessed) => KeepsFoundFields]_vars

-----------------------------------------------------------------------------
(* Properties of a save_paper call whose write fails                        *)

\* save_paper raised out of _save_to_file
SaveRaises == proc = "ready" /\ last'.op = "save" /\ last'.res = "raised"

\* C28 (as claimed): when the file write inside save_paper fails, the dict is
\* the same as before the call.
C28_FailedSaveLeavesDict == [][SaveRaises => papers' = papers]_vars

-----------------------------------------------------------------------------
(* Properties of the keys of cvpr.py                                        *)

\* C29 (as claimed): in cvpr the record of a listing entry is stored under
\* the key its skip check looks up, so that once a run saved a complete
\* record for the entry, every later run skips the entry.
C29_SkipKeyIsStoreKey ==
    /\ \A i \in 1..Len(fn.acts) : \A j \in (i + 1)..Len(fn.acts) :
            fn.acts[i] = "save_full" => fn.acts[j] = "skip"
    /\ (proc = "ready" /\ last.op = "save" /\ last.res = "returned") =>
            /\ last.arg = ListingTitle(fn.text)
            /\ ListingTitle(fn.text) \in Keys(venue, papers)

\* the same for the entries whose page title is the whitespace-collapsed text
\* of the listing link
SkipKeyOfCollapsedTitle ==
    PageTitle(fn.page) = ListingTitle(fn.text) =>
        /\ \A i \in 1..Len(fn.acts) : \A j \in (i + 1)..Len(fn.acts) :
                fn.acts[i] = "save_full" => fn.acts[j] = "skip"
        /\ (proc = "ready" /\ last.op = "save" /\ last.res = "returned") =>
                /\ last.arg = ListingTitle(fn.text)
                /\ ListingTitle(fn.text) \in Keys(venue, papers)

-----------------------------------------------------------------------------
(* Properties of the paginated fetch of iclr23.py                           *)

RECURSIVE Concat(_)
Concat(pages) == IF pages = <<>> THEN <<>> ELSE Head(pages) \o Concat(Tail(pages))

\* the loop has stopped
FetchOver == fn.pc \in {"fetched", "process", "exit"}

\* the page that ends the loop when no fetch raises: empty or short
LastPage(p) == p = <<>> \/ Len(p) < fn.page_limit

PagingSafety ==
    \* the accumulator is the fetched pages, each submission once, in page order
    /\ fn.accumulator = Concat(fn.pages)
    /\ fn.accumulator = SubSeq(fn.source, 1, Len(fn.accumulator))
    \* every page before the last is a full one, and the offset is their sum
    /\ \A i \in 1..Len(fn.pages) :
            (i < Len(fn.pages) \/ ~FetchOver \/ ~fn.fetching_successful) =>
                Len(fn.pages[i]) = fn.page_limit
    /\ fn.offset = Len(Concat(IF FetchOver /\ fn.fetching_successful
                              THEN SubSeq(fn.pages, 1, Len(fn.pages) - 1)
                              ELSE fn.pages))
    \* the loop stops at an empty page, a short page or a fetch that raises
    /\ (FetchOver /\ fn.fetching_successful) =>
            (fn.pages # <<>> /\ LastPage(fn.pages[Len(fn.pages)]))
    \* what follows the loop works on the submissions fetched so far
    /\ fn.pc \in {"process", "exit"} => fn.submission_notes = fn.accumulator
    /\ fn.pc = "process" <=> (fn.submission_notes # <<>>)
    /\ fn.pc = "exit" =>  fn.accumulator = <<>>

\* C30: the paginated fetch of iclr23 ends for every finite source, at the
\* first empty page, the first page shorter than page_limit or the first
\* fetch that raises; the accumulator is the fetched pages in page order, each
\* submission once, the offset is the number of items received; after a
\* raising fetch the script goes on with the submissions fetched so far.
C30_PaginationTerminates ==
    /\ []PagingSafety
    /\ <>(fn.pc \in {"process", "exit"})

\* two full pages were fetched, the third fetch raised, the script goes on
C30_Witness ==
    /\ fn.pc = "process"
    /\ ~fn.fetching_successful
    /\ Len(fn.pages) = 2
    /\ Len(fn.submission_notes) = 2 * fn.page_limit

====
